---- MODULE Spec2Model ----
(***************************************************************************)
(* NexusMiner solo session: LLP packet framing (LLP/packet.hpp), the       *)
(* receive loop of Worker_manager (worker_manager.cpp), the Solo protocol  *)
(* state machine (protocol/solo.cpp), the mining template interface        *)
(* (protocol/mining_template_interface.cpp) and the TCP connection         *)
(* (network/tcp/connection_impl.hpp).                                      *)
(***************************************************************************)
EXTENDS Integers, Sequences, FiniteSets, TLC

(***************************************************************************)
(* Opcodes, LLP/miner_opcodes.hpp                                          *)
(***************************************************************************)
BLOCK_DATA == 0
SUBMIT_BLOCK == 1
BLOCK_HEIGHT == 2
SET_CHANNEL == 3
BLOCK_REWARD == 4
GET_BLOCK == 129
GET_HEIGHT == 130
ACCEPT == 200
REJECT == 201
CHANNEL_ACK == 206
MINER_AUTH_INIT == 207
MINER_AUTH_CHALLENGE == 208
MINER_AUTH_RESPONSE == 209
MINER_AUTH_RESULT == 210
SESSION_START == 211
SESSION_KEEPALIVE == 212
PING == 253

(***************************************************************************)
(* Bounds of the model                                                     *)
(***************************************************************************)
\* longest payload of a packet drawn for the codec specification
MaxPayloadLen == 2

(***************************************************************************)
(* Byte helpers                                                            *)
(***************************************************************************)
Byte == 0..255

\* network::Shared_payload: a null pointer, or a vector of bytes
NullPayload == [null |-> TRUE, bytes |-> <<>>]
Shared(b) == [null |-> FALSE, bytes |-> b]

\* (b1 << 24) + (b2 << 16) + (b3 << 8) + b4 stored in a std::uint32_t.
\* TLC integers are 32 bits wide and signed: every value with the top bit set
\* (b1 >= 128) is represented by 2^31 - 1, which is larger than every buffer.
be32(b1, b2, b3, b4) ==
    IF b1 >= 128 THEN 2147483647
    ELSE b1 * 16777216 + b2 * 65536 + b3 * 256 + b4

\* b0 | (b1 << 8) | (b2 << 16) | (b3 << 24), the same bytes in little-endian order
le32(b0, b1, b2, b3) ==
    IF b3 >= 128 THEN 2147483647
    ELSE b0 + b1 * 256 + b2 * 65536 + b3 * 16777216

\* the four bytes of a uint32, least significant first (append_uint32_le)
length_bytes_le(n) ==
    << n % 256, (n \div 256) % 256, (n \div 65536) % 256, (n \div 16777216) % 256 >>
\* the four push_back calls of get_bytes, each truncated to one byte
length_bytes(n) ==
    << (n \div 16777216) % 256, (n \div 65536) % 256, (n \div 256) % 256, n % 256 >>

(***************************************************************************)
(* class Packet, LLP/packet.hpp                                            *)
(***************************************************************************)
\* Packet()
Packet_default ==
    [m_header |-> 255, m_length |-> 0, m_data |-> NullPayload, m_is_valid |-> FALSE]

\* explicit Packet(std::uint8_t header)
Packet_header(header) ==
    [m_header |-> header, m_length |-> 0, m_data |-> NullPayload, m_is_valid |-> TRUE]

\* Packet(std::uint8_t header, network::Shared_payload data)
Packet_shared(header, data) ==
    [m_header |-> header,
     m_length |-> IF data.null THEN 0 ELSE Len(data.bytes),
     m_data |-> data,
     m_is_valid |-> TRUE]

\* Packet(std::uint8_t header, network::Payload const& data)
Packet_payload(header, data) ==
    [m_header |-> header, m_length |-> Len(data), m_data |-> Shared(data),
     m_is_valid |-> TRUE]

is_auth_packet(p) ==
    p.m_header >= MINER_AUTH_INIT /\ p.m_header <= SESSION_KEEPALIVE

is_valid(p) ==
    IF ~p.m_is_valid THEN FALSE
    ELSE IF p.m_header = 0 /\ p.m_length = 0 THEN TRUE
    ELSE IF (p.m_header = GET_HEIGHT \/ p.m_header = GET_BLOCK \/ p.m_header = PING)
            /\ p.m_length = 0 THEN TRUE
    ELSE IF p.m_header < 128 /\ p.m_length > 0 THEN TRUE
    ELSE IF is_auth_packet(p) /\ p.m_length > 0 THEN TRUE
    ELSE IF p.m_header >= 128 /\ p.m_header < 255 /\ p.m_length = 0 THEN TRUE
    ELSE FALSE

\* get_bytes without the validity test at its head
get_bytes_unchecked(p) ==
    IF (p.m_header < 128 \/ is_auth_packet(p)) /\ p.m_length > 0
    THEN Shared(<<p.m_header>> \o length_bytes(p.m_length) \o p.m_data.bytes)
    ELSE Shared(<<p.m_header>>)
\* get_bytes writing the length field in little-endian order
get_bytes_le(p) ==
    IF ~is_valid(p) THEN NullPayload
    ELSE IF (p.m_header < 128 \/ is_auth_packet(p)) /\ p.m_length > 0
         THEN Shared(<<p.m_header>> \o length_bytes_le(p.m_length) \o p.m_data.bytes)
         ELSE Shared(<<p.m_header>>)
get_bytes(p) ==
    IF ~is_valid(p) THEN NullPayload
    ELSE IF (p.m_header < 128 \/ is_auth_packet(p)) /\ p.m_length > 0
         THEN Shared(<<p.m_header>> \o length_bytes(p.m_length) \o p.m_data.bytes)
         ELSE Shared(<<p.m_header>>)

\* the buffer size as it was: nothing is taken off for the packet
remaining_after_nothing(buffer_size, length) == buffer_size

\* extract_packet_from_buffer(buffer, remaining_size, start_index): the packet
\* returned and the value left in remaining_size.  start_index counts from 0.
\* variant that forgets the 5 header bytes when counting what is left
remaining_after_payload(buffer_size, length) == buffer_size - length

\* bytes left in the buffer behind a packet of `length` payload bytes
remaining_after_packet(buffer_size, length) == buffer_size - (5 + length)

extract_packet_from_buffer(buffer, start_index) ==
    LET invalid == [packet |-> Packet_default, remaining_size |-> 0]
    IN  IF buffer.null THEN invalid
        ELSE IF Len(buffer.bytes) = 0 THEN invalid
        ELSE IF start_index >= Len(buffer.bytes) THEN invalid
        ELSE
          LET b == buffer.bytes
              buffer_size == Len(b) - start_index
          IN  IF buffer_size = 1
              THEN [packet |-> [Packet_default EXCEPT !.m_header = b[start_index + 1],
                                                      !.m_is_valid = TRUE],
                    remaining_size |-> 0]
              ELSE IF buffer_size > 1 /\ buffer_size < 5 THEN invalid
              ELSE
                LET length == be32(b[start_index + 2], b[start_index + 3],
                                   b[start_index + 4], b[start_index + 5])
                IN  IF length > buffer_size - 5 THEN invalid
                    ELSE [packet |->
                            [m_header |-> b[start_index + 1],
                             m_length |-> length,
                             m_data |-> Shared(SubSeq(b, start_index + 6,
                                                      start_index + 5 + length)),
                             m_is_valid |-> TRUE],
                          remaining_size |-> remaining_after_packet(buffer_size, length)]

(***************************************************************************)
(* Program constants                                                       *)
(***************************************************************************)
\* protocol.hpp: MIN_BLOCK_HEADER_SIZE = 4 + 128 + 64 + 20
MIN_BLOCK_HEADER_SIZE == 216
\* falcon_wrapper.cpp validate_keys: FALCON512_PUBKEY_SIZE
FALCON512_PUBKEY_SIZE == 897

(***************************************************************************)
(* Bounds of the session model                                             *)
(***************************************************************************)
\* packets the node sends during one run
MaxSent == 2
\* packets the node may have in flight (sent, not yet read) at once
MaxInFlight == 2
\* a socket read returns everything available or a fragment of at most this size
MaxFragment == 3
\* reads that may end inside one packet before a read reaches its end
MaxSplits == 2
\* connections dialled during one run
MaxConnects == 2
\* nonces the worker finds during one run
MaxSolutions == 1
\* bytes of a signature returned by the Falcon oracle
SigLen == 2

(***************************************************************************)
(* Block header codec, LLP/block_utils.hpp                                 *)
(***************************************************************************)
Zeros(n) == [i \in 1..n |-> 0]

\* a value below 2^31 as four big-endian bytes
u32_be(v) == length_bytes(v)

\* append_uint64_le for values below 2^31
append_uint64_le(v) == length_bytes_le(v) \o Zeros(4)

\* append_uint16_le
\* variant that writes the high byte first
append_uint16_be(v) == << (v \div 256) % 256, v % 256 >>

append_uint16_le(v) == << v % 256, (v \div 256) % 256 >>

\* bytes2uint: the first four bytes as a big-endian uint32
bytes2uint(d) == be32(d[1], d[2], d[3], d[4])

\* the 128 bytes of hashPrevBlock, which the miner skips
PrevBlockBytes == [i \in 1..128 |-> 171]

\* the wire form of a block header as the node serialises it
serialize_block_header(block) ==
    u32_be(block.nVersion) \o PrevBlockBytes \o block.hashMerkleRoot
        \o u32_be(block.nChannel) \o u32_be(block.nHeight) \o u32_be(block.nBits)
        \o Zeros(4) \o u32_be(block.nNonce)

NoBlock ==
    [nVersion |-> 0, hashMerkleRoot |-> <<>>, nChannel |-> 0, nHeight |-> 0,
     nBits |-> 0, nNonce |-> 0]

\* deserialize_block_header: ok = FALSE stands for the exception it throws
deserialize_block_header(data) ==
    IF Len(data) < 216 THEN [ok |-> FALSE, block |-> NoBlock]
    ELSE LET merkle_root_size == Len(data) - 132 - 20
             t == 132 + merkle_root_size
         IN  IF merkle_root_size < 64 THEN [ok |-> FALSE, block |-> NoBlock]
             ELSE [ok |-> TRUE,
                   block |->
                     [nVersion |-> be32(data[1], data[2], data[3], data[4]),
                      hashMerkleRoot |-> SubSeq(data, 133, t),
                      nChannel |-> be32(data[t + 1], data[t + 2], data[t + 3], data[t + 4]),
                      nHeight |-> be32(data[t + 5], data[t + 6], data[t + 7], data[t + 8]),
                      nBits |-> be32(data[t + 9], data[t + 10], data[t + 11], data[t + 12]),
                      nNonce |-> be32(data[t + 17], data[t + 18], data[t + 19], data[t + 20])]]

(***************************************************************************)
(* State                                                                   *)
(***************************************************************************)
VARIABLES
    pkt,        \* codec: the packet under test
    enc,        \* codec: result of pkt.get_bytes()
    dec,        \* codec: result of extract_packet_from_buffer(enc, remaining, 0)
    phase,      \* codec: "built", "encoded", "decoded"; "buffered", "extracted"
    from_index, \* codec: the start_index handed to extract_packet_from_buffer
    api,        \* the last call made on the template interface and its result
    tx,         \* Connection_impl's transmit queue, its writes, and the thread
                \* that runs a posted solution callback
    wk,         \* the Worker_hash objects with their search threads
    falcon,     \* the FalconSignatureWrapper with its counters
    solo,       \* protocol::Solo
    tmpl,       \* protocol::MiningTemplateInterface owned by Solo
    wm,         \* Worker_manager: m_connection, retry timer, statistics
    conn,       \* the Connection_impl behind Worker_manager::m_connection
    worker,     \* the mining worker (cpu::Worker_hash)
    wire,       \* every payload handed to Connection::transmit on this connection
    rd,         \* what the last socket read delivered and dispatched
    node        \* the node: packets in flight towards the miner, budgets

vars == << pkt, enc, dec, phase, from_index, api, tx, wk, falcon, solo, tmpl, wm, conn, worker, wire, rd, node >>
codec_vars == << pkt, enc, dec, phase, from_index, api, tx, wk, falcon >>
session_vars == << solo, tmpl, wm, conn, worker, wire, rd, node >>

\* the mutable program state that the handlers below transform
World ==
    [solo |-> solo, tmpl |-> tmpl, wm |-> wm, conn |-> conn, worker |-> worker,
     wire |-> wire, dispatched |-> <<>>]

(***************************************************************************)
(* Connection_impl, network/tcp/connection_impl.hpp                        *)
(***************************************************************************)
NoConnection == [m_connection_handler |-> FALSE, state |-> "none", auth_failed |-> FALSE]

\* Connection_impl::transmit.  A closed connection (no handler) drops the
\* buffer.  transmit_trigger dereferences the queued buffer: a null buffer is
\* a null-pointer dereference, which ends the process.
transmit(W, tx_buffer) ==
    IF ~W.conn.m_connection_handler THEN W
    ELSE [W EXCEPT !.wire = Append(@, [payload |-> tx_buffer,
                                       authenticated |-> W.solo.m_authenticated,
                                       after_auth_fail |-> W.conn.auth_failed]),
                   !.wm.crashed = @ \/ tx_buffer.null]

\* connection->transmit(...) through the shared_ptr the handlers are given,
\* which is Worker_manager::m_connection: null is a null-pointer dereference
connection_transmit(W, tx_buffer) ==
    IF ~W.wm.m_connection THEN [W EXCEPT !.wm.crashed = TRUE]
    ELSE transmit(W, tx_buffer)

(***************************************************************************)
(* MiningTemplateInterface, protocol/mining_template_interface.cpp         *)
(***************************************************************************)
NoTemplate == [state |-> "EMPTY", block |-> NoBlock, nBits |-> 0, session_id |-> 0]

NoStats ==
    [templates_received |-> 0, templates_validated |-> 0, templates_rejected |-> 0,
     templates_stale |-> 0, templates_fed |-> 0, blocks_verified |-> 0]

\* MiningTemplateInterface::set_session_id
set_session_id(T, session_id) ==
    [T EXCEPT !.m_session_id = session_id,
              !.m_current_template.session_id = session_id]

reset_stats(T) == [T EXCEPT !.stats = NoStats]

\* variant that only accepts a template already marked ACTIVE
has_valid_template_active_only(T) == T.m_current_template.state = "ACTIVE"

has_valid_template(T) ==
    T.m_current_template.state = "VALIDATED" \/ T.m_current_template.state = "ACTIVE"

\* validate_template: every check runs; a later failing check overwrites
\* error_message
\* variant that also rejects a template at the current height
is_stale_height_or_equal(current_height, nHeight) ==
    current_height > 0 /\ nHeight <= current_height

\* the staleness test of validate_template
is_stale_height(current_height, nHeight) ==
    current_height > 0 /\ nHeight < current_height

validate_template(T, t) ==
    LET channel_valid == t.block.nChannel = T.m_channel
        is_stale == is_stale_height(T.m_current_height, t.block.nHeight)
        bits_valid == t.block.nBits # 0
        merkle_valid == \E k \in 1..Len(t.block.hashMerkleRoot) :
                            t.block.hashMerkleRoot[k] # 0
    IN  [is_valid |-> channel_valid /\ ~is_stale /\ bits_valid /\ merkle_valid,
         is_stale |-> is_stale,
         merkle_valid |-> merkle_valid,
         height_valid |-> ~is_stale,
         bits_valid |-> bits_valid,
         channel_valid |-> channel_valid,
         error_message |->
            IF ~merkle_valid THEN "merkle"
            ELSE IF ~bits_valid THEN "bits"
            ELSE IF is_stale THEN "stale"
            ELSE IF ~channel_valid THEN "channel"
            ELSE ""]

InvalidResult(msg) ==
    [is_valid |-> FALSE, is_stale |-> FALSE, merkle_valid |-> FALSE,
     height_valid |-> FALSE, bits_valid |-> FALSE, channel_valid |-> FALSE,
     error_message |-> msg]

\* feed_current_template
feed_current_template(T) ==
    IF ~has_valid_template(T) THEN T
    ELSE IF ~T.m_feed_handler THEN T
    ELSE [T EXCEPT !.m_current_template.state = "ACTIVE",
                   !.stats.templates_fed = @ + 1]

\* read_template(const network::Payload&, ...): the interface afterwards and
\* the ValidationResult
read_template_payload(T, data) ==
    LET T1 == [T EXCEPT !.stats.templates_received = @ + 1]
        parsed == deserialize_block_header(data)
    IN  IF ~parsed.ok
        THEN [tmpl |-> [T1 EXCEPT !.stats.templates_rejected = @ + 1],
              result |-> InvalidResult("parse")]
        ELSE
          LET t == [state |-> "RECEIVED", block |-> parsed.block,
                    nBits |-> parsed.block.nBits, session_id |-> T.m_session_id]
              result == validate_template(T1, t)
          IN  IF result.is_valid
              THEN [tmpl |-> feed_current_template(
                                [T1 EXCEPT !.m_current_template =
                                               [t EXCEPT !.state = "VALIDATED"],
                                           !.m_current_height = t.block.nHeight,
                                           !.stats.templates_validated = @ + 1]),
                    result |-> result]
              ELSE [tmpl |-> [T1 EXCEPT !.stats.templates_rejected = @ + 1,
                                        !.stats.templates_stale =
                                            IF result.is_stale THEN @ + 1 ELSE @],
                    result |-> result]

\* read_template(network::Shared_payload, ...)
read_template(T, data) ==
    IF data.null \/ Len(data.bytes) = 0
    THEN [tmpl |-> T, result |-> InvalidResult("empty")]
    ELSE read_template_payload(T, data.bytes)

\* MiningTemplateInterface::set_template_feed_handler
set_template_feed_handler(T) == [T EXCEPT !.m_feed_handler = TRUE]

\* MiningTemplateInterface::mark_template_stale
mark_template_stale(T) ==
    IF T.m_current_template.state # "EMPTY" /\ T.m_current_template.state # "STALE"
    THEN [T EXCEPT !.m_current_template.state = "STALE",
                   !.stats.templates_stale = @ + 1]
    ELSE T

\* variant that refuses a zero nonce
verify_block_creation_nonzero(T, merkle_root, nonce) ==
    /\ has_valid_template(T)
    /\ (Len(merkle_root) = 32 \/ Len(merkle_root) = 64)
    /\ nonce # 0

\* MiningTemplateInterface::verify_block_creation: a zero nonce is only logged
verify_block_creation(T, merkle_root, nonce) ==
    IF ~has_valid_template(T) THEN FALSE
    ELSE IF Len(merkle_root) # 32 /\ Len(merkle_root) # 64 THEN FALSE
    ELSE IF nonce = 0 THEN TRUE
    ELSE TRUE

\* MiningTemplateInterface::prepare_block_submission: the interface afterwards
\* and the payload merkle_root + nonce (8 bytes, little-endian)
prepare_block_submission(T, merkle_root, nonce) ==
    IF ~verify_block_creation(T, merkle_root, nonce)
    THEN [tmpl |-> T, payload |-> <<>>]
    ELSE [tmpl |-> [T EXCEPT !.stats.blocks_verified = @ + 1],
          payload |-> merkle_root \o append_uint64_le(nonce)]

(***************************************************************************)
(* Worker, cpu/src/cpu/worker_hash.cpp                                     *)
(***************************************************************************)
NoWorker ==
    [running |-> FALSE, m_block |-> NoBlock, m_found_nonce_callback |-> FALSE,
     m_pool_nbits |-> 0, set_block_calls |-> 0, posted |-> 0, posted_for |-> 0,
     found |-> 0, solutions |-> {}]

\* Worker_hash::set_block for the worker with internal id 0: the search is
\* restarted on the new block from the starting nonce 0 << 48;
\* set_block_calls counts the invocations
set_block(w, block, nbits) ==
    [w EXCEPT !.running = TRUE,
              !.m_block = [block EXCEPT !.nNonce = 0],
              !.m_found_nonce_callback = TRUE,
              !.m_pool_nbits = nbits,
              !.set_block_calls = @ + 1]

(***************************************************************************)
(* Solo, protocol/solo.cpp                                                 *)
(***************************************************************************)
\* variant that keeps the session id of the closed session
Solo_reset_keeps_session(W) ==
    [W EXCEPT !.solo.m_current_height = 0,
              !.solo.m_current_reward = <<>>,
              !.solo.m_authenticated = FALSE,
              !.tmpl = reset_stats(@)]

\* Solo::reset
Solo_reset(W) ==
    [W EXCEPT !.solo.m_current_height = 0,
              !.solo.m_current_reward = <<>>,
              !.solo.m_authenticated = FALSE,
              !.solo.m_session_id = 0,
              !.tmpl = reset_stats(set_session_id(@, 0))]

\* Solo::get_work
get_work == get_bytes(Packet_header(GET_BLOCK))

\* if (connection) { auto work_payload = get_work();
\*                   if (work_payload && !work_payload->empty()) transmit }
request_work_checked(W) ==
    IF ~W.wm.m_connection THEN W
    ELSE IF get_work.null \/ Len(get_work.bytes) = 0 THEN W
    ELSE transmit(W, get_work)

\* the work request after ACCEPT, REJECT and CHANNEL_ACK: connection is used
\* without a null test
request_work(W) ==
    IF get_work.null \/ Len(get_work.bytes) = 0 THEN W
    ELSE connection_transmit(W, get_work)

\* Solo::send_set_channel
send_set_channel(W) ==
    connection_transmit(W,
        get_bytes(Packet_shared(SET_CHANNEL, Shared(<<W.solo.m_channel>>))))

\* the session id read as big-endian
session_id_be(d) == le32(d[5], d[4], d[3], d[2])
\* the session id of an AUTH_RESULT payload: bytes 1..4, little-endian
session_id_le(d) == le32(d[2], d[3], d[4], d[5])

(***************************************************************************)
(* Worker_manager::retry_connect and the login handler, worker_manager.cpp *)
(***************************************************************************)
\* Worker_manager::retry_connect: the connection object is released, the
\* protocol reset and the retry timer armed
\* Config::get_connection_retry_interval, in seconds
connection_retry_interval == 5

retry_connect(W) ==
    LET W1 == Solo_reset([W EXCEPT !.wm.m_connection = FALSE,
                                   !.conn = NoConnection])
    IN  [W1 EXCEPT !.wm.m_connection_retries = @ + 1,
                   !.wm.retry_timer = TRUE,
                   !.wm.retry_interval = connection_retry_interval]

\* the Falcon signature oracle: SigLen bytes
Signature == [i \in 1..SigLen |-> 7]

\* the time std::chrono::system_clock::now() returns, in seconds
Now == 1700000000

\* the Login_handler Worker_manager::connect passes to login
login_handler(W, login_result) ==
    IF ~login_result
    THEN retry_connect(W)
    ELSE [W EXCEPT !.wm.stats_timers = TRUE,
                   !.solo.m_set_block_handler = TRUE]

\* Solo::login.  wrapper_signs and falcon_signs are the outcomes of
\* FalconSignatureWrapper::sign_authentication and keys::falcon_sign.
\* The result is the World after the handler ran and the payload returned.
login(W, wrapper_signs, falcon_signs) ==
    LET failed == [world |-> login_handler(W, FALSE), payload |-> NullPayload]
        signed == IF W.solo.m_falcon_wrapper
                  THEN wrapper_signs \/ falcon_signs
                  ELSE falcon_signs
        payload == append_uint16_le(Len(W.solo.m_miner_pubkey))
                       \o W.solo.m_miner_pubkey
                       \o append_uint16_le(Len(Signature)) \o Signature
        packet == Packet_shared(MINER_AUTH_RESPONSE, Shared(payload))
        packet_bytes == get_bytes(packet)
    IN  IF Len(W.solo.m_miner_pubkey) = 0 \/ ~W.solo.has_privkey THEN failed
        ELSE IF ~signed THEN failed
        ELSE IF Len(payload) = 0 THEN failed
        ELSE IF packet_bytes.null \/ Len(packet_bytes.bytes) = 0 THEN failed
        ELSE [world |-> login_handler(W, TRUE), payload |-> packet_bytes]

\* FalconSignatureWrapper::sign_payload on success: the signature is a
\* function of the signed bytes, here SigLen bytes that depend on every byte
\* of the message and on its length
RECURSIVE SumBytes(_)
SumBytes(d) == IF d = <<>> THEN 0 ELSE (d[1] + SumBytes(Tail(d))) % 256

sign_payload(message) ==
    [i \in 1..SigLen |-> IF i = 1 THEN SumBytes(message) ELSE Len(message) % 256]

\* variant that falls back to an unsigned packet when no signature is made
submit_block_unsigned(W, block_data, nonce, signs) ==
    IF Len(block_data) = 0 THEN NullPayload
    ELSE
      LET submission_timestamp == Now
          message_to_sign == block_data \o append_uint64_le(nonce)
                                 \o append_uint64_le(submission_timestamp)
          signature == IF W.solo.m_falcon_wrapper /\ signs
                       THEN sign_payload(message_to_sign) ELSE <<>>
          m_data == message_to_sign \o append_uint16_le(Len(signature)) \o signature
      IN  get_bytes([Packet_header(SUBMIT_BLOCK) EXCEPT !.m_data = Shared(m_data),
                                                        !.m_length = Len(m_data)])

\* Solo::submit_block.  signs is the outcome of FalconSignatureWrapper::sign_payload.
submit_block(W, block_data, nonce, signs) ==
    IF Len(block_data) = 0 THEN NullPayload
    ELSE IF ~W.solo.m_falcon_wrapper THEN NullPayload
    ELSE IF ~signs THEN NullPayload
    ELSE
      LET submission_timestamp == Now
          message_to_sign == block_data \o append_uint64_le(nonce)
                                 \o append_uint64_le(submission_timestamp)
          signature == sign_payload(message_to_sign)
          m_data == block_data \o append_uint64_le(nonce)
                        \o append_uint64_le(submission_timestamp)
                        \o append_uint16_le(Len(signature)) \o signature
          packet == [Packet_header(SUBMIT_BLOCK) EXCEPT !.m_data = Shared(m_data),
                                                        !.m_length = Len(m_data)]
          result == get_bytes(packet)
      IN  IF result.null \/ Len(result.bytes) = 0 THEN NullPayload ELSE result

\* the BLOCK_DATA branch of Solo::process_messages
process_block_data(W, packet) ==
    IF packet.m_data.null THEN request_work_checked(W)
    ELSE IF packet.m_length < MIN_BLOCK_HEADER_SIZE THEN request_work_checked(W)
    ELSE
      LET r == read_template(W.tmpl, packet.m_data)
          W1 == [W EXCEPT !.tmpl = r.tmpl]
      IN  IF ~r.result.is_valid THEN request_work_checked(W1)
          ELSE IF ~has_valid_template(r.tmpl) THEN W1
          ELSE
            LET t == r.tmpl.m_current_template
                W2 == [W1 EXCEPT !.solo.m_current_height = t.block.nHeight]
            IN  IF ~W2.solo.m_set_block_handler THEN request_work_checked(W2)
                ELSE [W2 EXCEPT !.worker = set_block(@, t.block, t.nBits)]

\* the MINER_AUTH_RESULT branch of Solo::process_messages
process_auth_result(W, packet) ==
    IF packet.m_data.null \/ packet.m_length < 1 THEN W
    ELSE
      LET d == packet.m_data.bytes
          auth_success == d[1] # 0
      IN  IF auth_success
          THEN LET W1 == [W EXCEPT !.solo.m_authenticated = TRUE]
                   W2 == IF packet.m_length >= 5
                         THEN [W1 EXCEPT !.solo.m_session_id = session_id_le(d),
                                         !.tmpl = set_session_id(@, session_id_le(d))]
                         ELSE W1
               IN  send_set_channel(W2)
          ELSE [W EXCEPT !.solo.m_authenticated = FALSE,
                         !.conn.auth_failed = TRUE]

\* Solo::process_messages
process_messages(W, packet) ==
    IF ~packet.m_is_valid THEN W
    ELSE IF packet.m_header = BLOCK_HEIGHT
    THEN IF packet.m_data.null \/ packet.m_length < 4 THEN W
         ELSE LET height == bytes2uint(packet.m_data.bytes)
              IN  IF height > W.solo.m_current_height
                  THEN connection_transmit(
                           [W EXCEPT !.solo.m_current_height = height], get_work)
                  ELSE W
    ELSE IF packet.m_header = BLOCK_REWARD
    THEN IF packet.m_data.null \/ packet.m_length < 8 THEN W
         ELSE [W EXCEPT !.solo.m_current_reward = SubSeq(packet.m_data.bytes, 1, 8)]
    ELSE IF packet.m_header = BLOCK_DATA THEN process_block_data(W, packet)
    ELSE IF packet.m_header = ACCEPT
    THEN request_work([W EXCEPT !.wm.m_accepted_blocks = @ + 1])
    ELSE IF packet.m_header = REJECT
    THEN request_work([W EXCEPT !.wm.m_rejected_blocks = @ + 1])
    ELSE IF packet.m_header = MINER_AUTH_CHALLENGE THEN W
    ELSE IF packet.m_header = MINER_AUTH_RESULT THEN process_auth_result(W, packet)
    ELSE IF packet.m_header = CHANNEL_ACK THEN request_work(W)
    ELSE W

(***************************************************************************)
(* Worker_manager::process_data, worker_manager.cpp                        *)
(***************************************************************************)
\* Worker_manager::process_data: one pass of the do/while body per packet,
\* from the position size - remaining_size
RECURSIVE process_data_from(_, _, _)
process_data_from(W, receive_buffer, remaining_size) ==
    LET r == extract_packet_from_buffer(receive_buffer,
                 Len(receive_buffer.bytes) - remaining_size)
        W1 == IF ~is_valid(r.packet) THEN W
              ELSE IF r.packet.m_header = PING
              THEN [W EXCEPT !.dispatched = Append(@, r.packet)]
              ELSE process_messages([W EXCEPT !.dispatched = Append(@, r.packet)],
                                    r.packet)
    IN  IF r.remaining_size # 0
        THEN process_data_from(W1, receive_buffer, r.remaining_size)
        ELSE W1

process_data(W, receive_buffer) ==
    process_data_from(W, receive_buffer, Len(receive_buffer.bytes))

(***************************************************************************)
(* The session: state after construction                                   *)
(***************************************************************************)
\* miner.conf: no Falcon keys, keys of the wrong size, a valid key pair
KeyConfigs == {"none", "invalid", "valid"}
\* Solo's constructor clamps the channel to 1 (prime) or 2 (hash)
Channels == {1, 2}

Pubkey(keys) ==
    IF keys = "valid" THEN [i \in 1..FALCON512_PUBKEY_SIZE |-> 1]
    ELSE IF keys = "invalid" THEN <<1>>
    ELSE <<>>

NoRead ==
    [n |-> 0, aligned |-> FALSE, left |-> 0, frags |-> <<>>, completed |-> <<>>,
     dispatched |-> <<>>, wire_before |-> 0]

\* a FalconSignatureWrapper after construction: m_initialized is the
\* outcome of validate_keys, the counters are 0
FalconSignatureWrapper(keys_valid, has_privkey) ==
    [m_initialized |-> keys_valid, m_privkey |-> has_privkey,
     m_total_signatures |-> 0, m_auth_signatures |-> 0,
     m_block_signatures |-> 0, m_payload_signatures |-> 0,
     calls |-> 0,
     last |-> [op |-> "none", type |-> "PAYLOAD", success |-> FALSE]]

\* FalconSignatureWrapper::sign_internal; signed is the outcome of
\* keys::falcon_sign
sign_internal(F, data, type, signed) ==
    IF data = <<>> THEN [falcon |-> F, success |-> FALSE]
    ELSE IF ~F.m_privkey THEN [falcon |-> F, success |-> FALSE]
    ELSE IF ~signed THEN [falcon |-> F, success |-> FALSE]
    ELSE [falcon |-> [F EXCEPT !.m_total_signatures = @ + 1], success |-> TRUE]

\* FalconSignatureWrapper::sign_payload with its counters
wrapper_sign_payload(F, payload, type, signed) ==
    IF ~F.m_initialized THEN [falcon |-> F, success |-> FALSE]
    ELSE LET r == sign_internal(F, payload, type, signed)
         IN  IF r.success
             THEN [r EXCEPT !.falcon.m_payload_signatures = @ + 1]
             ELSE r

\* FalconSignatureWrapper::sign_block
wrapper_sign_block(F, block_data, signed) ==
    IF ~F.m_initialized THEN [falcon |-> F, success |-> FALSE]
    ELSE LET r == sign_internal(F, block_data \o Zeros(8), "BLOCK", signed)
         IN  IF r.success
             THEN [r EXCEPT !.falcon.m_block_signatures = @ + 1]
             ELSE r

\* FalconSignatureWrapper::sign_authentication
wrapper_sign_authentication(F, address, signed) ==
    IF ~F.m_initialized THEN [falcon |-> F, success |-> FALSE]
    ELSE LET r == sign_internal(F, address \o Zeros(8), "AUTHENTICATION", signed)
         IN  IF r.success
             THEN [r EXCEPT !.falcon.m_auth_signatures = @ + 1]
             ELSE r

\* a 64-bit unsigned integer as four 16-bit limbs, least significant first
to_uint64(x) == << x % 65536, (x \div 65536) % 65536, 0, 0 >>

\* x << 64 on 64 bits: every bit is shifted out
shift_left_64(x) == << 0, 0, 0, 0 >>

\* x << 48 on 64 bits: the three upper limbs are shifted out
shift_left_48(x) == << 0, 0, 0, x[1] >>

\* a thread can be joined once it has left run()
join_returns_at_once(thread) == TRUE

join_returns(thread) == thread # "running"

\* Worker_config::m_internal_id = internal_id, a std::uint16_t
internal_id_of(position) == position % 65536

\* a Worker_hash after construction, built for the entry at a position of
\* the list of worker configurations
Worker_hash(position) ==
    [m_internal_id |-> internal_id_of(position), position |-> position,
     m_stop |-> TRUE, m_run_thread |-> "none", threads |-> 0,
     m_block |-> 0, m_found_nonce_callback |-> FALSE,
     m_starting_nonce |-> to_uint64(0), pc |-> "idle", block |-> 0,
     set_blocks |-> 0, hashed |-> 0]

\* the workers of the session specifications are not looked at
NoWorkers == << Worker_hash(0), Worker_hash(1) >>

\* a connected Connection_impl with nothing queued; pool is the thread of
\* the system executor that runs a posted solution callback
NoTx ==
    [m_connection_handler |-> TRUE, open |-> TRUE, m_tx_queue |-> <<>>,
     in_flight |-> <<>>, socket |-> <<>>, calls |-> 0, pool_calls |-> 0,
     write_errors |-> 0,
     pool |-> [pc |-> "idle", tx_buffer |-> 0], crashed |-> FALSE]

\* no call has been made on the template interface
NoCall ==
    [op |-> "none", data |-> NullPayload, merkle_root |-> <<>>, nonce |-> 0,
     result |-> FALSE, is_stale |-> FALSE, payload |-> <<>>,
     validation |-> InvalidResult("none")]

SessionInit(keys, channel) ==
    /\ solo = [m_channel |-> channel, m_current_height |-> 0,
               m_current_reward |-> Zeros(8), m_set_block_handler |-> FALSE,
               m_authenticated |-> FALSE, m_session_id |-> 0,
               m_miner_pubkey |-> Pubkey(keys), has_privkey |-> keys # "none",
               m_falcon_wrapper |-> keys = "valid"]
    /\ tmpl = [m_channel |-> channel, m_session_id |-> 0, m_current_height |-> 0,
               m_feed_handler |-> FALSE, m_current_template |-> NoTemplate,
               stats |-> NoStats]
    /\ wm = [m_connection |-> FALSE, retry_timer |-> FALSE, retry_interval |-> 0,
             stats_timers |-> FALSE,
             m_accepted_blocks |-> 0, m_rejected_blocks |-> 0,
             m_connection_retries |-> 0, crashed |-> FALSE, connects |-> 0]
    /\ conn = NoConnection
    /\ worker = NoWorker
    /\ wire = <<>>
    /\ rd = NoRead
    /\ node = [inflight |-> <<>>, consumed |-> 0, frags |-> <<>>, sent |-> 0]

(***************************************************************************)
(* The node: the packets it may send                                       *)
(***************************************************************************)
\* a block header of 216 bytes for the given channel, height and bits
NodeBlock(channel, height, bits) ==
    [nVersion |-> 1, hashMerkleRoot |-> [i \in 1..64 |-> 9], nChannel |-> channel,
     nHeight |-> height, nBits |-> bits, nNonce |-> 0]

AuthResultOkWithId == Packet_payload(MINER_AUTH_RESULT, <<1, 16, 32, 48, 64>>)
AuthResultOk == Packet_payload(MINER_AUTH_RESULT, <<1>>)
AuthResultFail == Packet_payload(MINER_AUTH_RESULT, <<0>>)
AuthResultOther == Packet_payload(MINER_AUTH_RESULT, <<2>>)

NodePackets ==
    { AuthResultOkWithId, AuthResultOk, AuthResultFail, AuthResultOther,
      Packet_payload(CHANNEL_ACK, <<2>>), Packet_header(CHANNEL_ACK),
      Packet_header(ACCEPT), Packet_header(REJECT), Packet_header(PING),
      Packet_payload(BLOCK_HEIGHT, u32_be(2)),
      Packet_payload(BLOCK_DATA, serialize_block_header(NodeBlock(2, 1, 5))),
      Packet_payload(BLOCK_DATA, serialize_block_header(NodeBlock(2, 3, 5))),
      Packet_payload(BLOCK_DATA, [i \in 1..92 |-> 1]) }

\* the LLP frame the node writes for a packet: the opcode alone, or the
\* opcode, the payload length as a big-endian uint32 and the payload
NodeFrame(p) ==
    IF p.m_length > 0 THEN <<p.m_header>> \o length_bytes(p.m_length) \o p.m_data.bytes
    ELSE <<p.m_header>>

RECURSIVE Stream(_)
\* the bytes of a sequence of packets as the node writes them to the socket
Stream(ps) ==
    IF ps = <<>> THEN <<>> ELSE NodeFrame(Head(ps)) \o Stream(Tail(ps))

RECURSIVE CompletedBy(_, _)
\* the packets of ps that lie wholly within the first total bytes of Stream(ps)
CompletedBy(ps, total) ==
    IF ps = <<>> THEN <<>>
    ELSE LET size == Len(NodeFrame(Head(ps)))
         IN  IF size <= total THEN <<Head(ps)>> \o CompletedBy(Tail(ps), total - size)
             ELSE <<>>

\* the bytes sent and not yet read
Pending == SubSeq(Stream(node.inflight), node.consumed + 1, Len(Stream(node.inflight)))

\* a read returns a fragment of at most MaxFragment bytes (at most MaxSplits
\* times in a row), or everything up to the end of one of the packets in flight
ReadSizes ==
    { n \in 1..Len(Pending) :
        \/ n <= MaxFragment /\ Len(node.frags) < MaxSplits
        \/ \E k \in 1..Len(node.inflight) :
               node.consumed + n = Len(Stream(SubSeq(node.inflight, 1, k))) }

(***************************************************************************)
(* The session: one action per handler                                     *)
(***************************************************************************)
Commit(W) ==
    /\ solo' = W.solo
    /\ tmpl' = W.tmpl
    /\ wm' = W.wm
    /\ conn' = W.conn
    /\ worker' = W.worker
    /\ wire' = W.wire

\* bytes in flight are lost with the connection
NodeAfter(W, n) == IF W.wm.m_connection THEN n ELSE [n EXCEPT !.inflight = <<>>,
                                                              !.consumed = 0,
                                                              !.frags = <<>>]

\* Worker_manager::connect, called at start-up and by the connection retry
\* timer: a new connection object with the handler of lines 258-349
Connect ==
    /\ ~wm.crashed
    /\ ~wm.m_connection
    /\ wm.connects = 0 \/ wm.retry_timer
    /\ wm.connects < MaxConnects
    /\ wm' = [wm EXCEPT !.m_connection = TRUE, !.retry_timer = FALSE,
                        !.connects = @ + 1]
    /\ conn' = [m_connection_handler |-> TRUE, state |-> "connecting",
                auth_failed |-> FALSE]
    /\ wire' = <<>>
    /\ rd' = NoRead
    /\ node' = [node EXCEPT !.inflight = <<>>, !.consumed = 0, !.frags = <<>>]
    /\ UNCHANGED << solo, tmpl, worker, codec_vars >>

\* connection handler, Result::connection_ok: login is transmitted.  When
\* login returns a null payload its handler has already released the
\* connection, and transmit is called through the released pointer with a
\* null buffer: the process may crash or carry on
ConnectionOk ==
    /\ ~wm.crashed
    /\ conn.state = "connecting"
    /\ \E wrapper_signs \in BOOLEAN, falcon_signs \in BOOLEAN, crash \in BOOLEAN :
         LET r == login([World EXCEPT !.conn.state = "open"],
                        wrapper_signs, falcon_signs)
             W == IF r.payload.null
                  THEN [r.world EXCEPT !.wm.crashed = crash]
                  ELSE transmit(r.world, r.payload)
         IN  /\ r.payload.null \/ ~crash
             /\ Commit(W)
             /\ node' = NodeAfter(W, node)
    /\ rd' = NoRead
    /\ UNCHANGED codec_vars

\* connection handler, Result::connection_declined, connection_aborted,
\* connection_closed or connection_error
ConnectionLost ==
    /\ ~wm.crashed
    /\ conn.state \in {"connecting", "open"}
    /\ LET W == retry_connect(World)
       IN  Commit(W) /\ node' = NodeAfter(W, node)
    /\ rd' = NoRead
    /\ UNCHANGED codec_vars

\* the node writes a packet to the socket
NodeSend ==
    /\ ~wm.crashed
    /\ conn.state = "open"
    /\ node.sent < MaxSent
    /\ Len(node.inflight) < MaxInFlight
    /\ \E p \in NodePackets :
         node' = [node EXCEPT !.inflight = Append(@, p), !.sent = @ + 1]
    /\ rd' = NoRead
    /\ UNCHANGED << solo, tmpl, wm, conn, worker, wire, codec_vars >>

\* connection handler, Result::receive_ok: one socket read is handed to
\* process_data as its own buffer
Receive ==
    /\ ~wm.crashed
    /\ conn.state = "open"
    /\ \E n \in ReadSizes :
         LET total == node.consumed + n
             completed == CompletedBy(node.inflight, total)
             left == total - Len(Stream(completed))
             W0 == IF ~wm.m_connection THEN retry_connect(World) ELSE World
             W == process_data(W0, Shared(SubSeq(Pending, 1, n)))
             frags == Append(node.frags, n)
         IN  /\ Commit(W)
             /\ rd' = [n |-> n,
                       aligned |-> node.consumed = 0 /\ left = 0,
                       left |-> left,
                       frags |-> frags,
                       completed |-> completed,
                       dispatched |-> W.dispatched,
                       wire_before |-> Len(wire)]
             /\ node' = [node EXCEPT
                           !.inflight = SubSeq(@, Len(completed) + 1, Len(@)),
                           !.consumed = left,
                           !.frags = IF left = 0 THEN <<>> ELSE frags]
    /\ UNCHANGED codec_vars

\* Worker_hash::run finds a nonce: the solution callback is posted
FoundNonce ==
    /\ ~wm.crashed
    /\ worker.running
    /\ worker.found < MaxSolutions
    /\ worker' = [worker EXCEPT !.m_block.nNonce = 5, !.posted = @ + 1,
                                !.posted_for = worker.set_block_calls,
                                !.found = @ + 1,
                                !.solutions = @ \cup {[worker.m_block EXCEPT !.nNonce = 5]}]
    /\ rd' = NoRead
    /\ UNCHANGED << solo, tmpl, wm, conn, wire, node, codec_vars >>

\* the posted solution callback runs: the lambda set_block was given
SubmitSolution ==
    /\ ~wm.crashed
    /\ worker.posted > 0
    /\ \E signs \in BOOLEAN :
         LET W0 == [World EXCEPT !.worker.posted = @ - 1]
             W == IF W0.wm.m_connection
                  THEN transmit(W0, submit_block(W0, worker.m_block.hashMerkleRoot,
                                                 worker.m_block.nNonce, signs))
                  ELSE retry_connect(W0)
         IN  Commit(W) /\ node' = NodeAfter(W, node)
    /\ rd' = NoRead
    /\ UNCHANGED codec_vars

Init ==
    /\ \E keys \in KeyConfigs, channel \in Channels : SessionInit(keys, channel)
    /\ pkt = Packet_default
    /\ enc = NullPayload
    /\ dec = [packet |-> Packet_default, remaining_size |-> 0]
    /\ phase = "built"
    /\ from_index = 0
    /\ api = NoCall
    /\ tx = NoTx
    /\ falcon = FalconSignatureWrapper(TRUE, TRUE)
    /\ wk = NoWorkers

Next ==
    \/ Connect
    \/ ConnectionOk
    \/ ConnectionLost
    \/ NodeSend
    \/ Receive
    \/ FoundNonce
    \/ SubmitSolution

Spec == Init /\ [][Next]_vars

(***************************************************************************)
(* Codec specification: every packet the constructors can build, encoded   *)
(* with get_bytes and parsed back with extract_packet_from_buffer.         *)
(***************************************************************************)
PayloadByte == {0, 1, 255}

RECURSIVE SeqsUpTo(_, _)
SeqsUpTo(S, n) ==
    IF n = 0 THEN { <<>> }
    ELSE LET shorter == SeqsUpTo(S, n - 1)
         IN  shorter \cup { Append(q, x) : q \in { r \in shorter : Len(r) = n - 1 }, x \in S }

CodecPayloads == SeqsUpTo(PayloadByte, MaxPayloadLen)

CodecPackets ==
    { Packet_default }
    \cup { Packet_header(h) : h \in Byte }
    \cup { Packet_shared(h, NullPayload) : h \in Byte }
    \cup { Packet_shared(h, Shared(d)) : h \in Byte, d \in CodecPayloads }
    \cup { Packet_payload(h, d) : h \in Byte, d \in CodecPayloads }

NoDec == [packet |-> Packet_default, remaining_size |-> 0]

CodecInit ==
    /\ pkt \in CodecPackets
    /\ enc = NullPayload
    /\ dec = NoDec
    /\ phase = "built"
    /\ from_index = 0
    /\ api = NoCall
    /\ tx = NoTx
    /\ falcon = FalconSignatureWrapper(TRUE, TRUE)
    /\ wk = NoWorkers
    /\ SessionInit("valid", 2)

Encode ==
    /\ phase = "built"
    /\ enc' = get_bytes(pkt)
    /\ phase' = "encoded"
    /\ UNCHANGED << pkt, dec, from_index, api, tx, wk, falcon, session_vars >>

Decode ==
    /\ phase = "encoded"
    /\ dec' = extract_packet_from_buffer(enc, 0)
    /\ phase' = "decoded"
    /\ UNCHANGED << pkt, enc, from_index, api, tx, wk, falcon, session_vars >>

CodecNext == Encode \/ Decode

SpecCodec == CodecInit /\ [][CodecNext]_vars

(***************************************************************************)
(* extract_packet_from_buffer on arbitrary receive buffers: the buffer and *)
(* the start index are drawn from bounded sets, whatever a peer may send.  *)
(***************************************************************************)
MaxBufferLen == 6
BufferByte == {0, 1, 129}

ExtractBuffers ==
    { NullPayload } \cup { Shared(b) : b \in SeqsUpTo(BufferByte, MaxBufferLen) }

ExtractInit ==
    /\ pkt = Packet_default
    /\ enc \in ExtractBuffers
    /\ from_index \in 0..(MaxBufferLen + 1)
    /\ dec = NoDec
    /\ phase = "buffered"
    /\ api = NoCall
    /\ tx = NoTx
    /\ falcon = FalconSignatureWrapper(TRUE, TRUE)
    /\ wk = NoWorkers
    /\ SessionInit("valid", 2)

Extract ==
    /\ phase = "buffered"
    /\ dec' = extract_packet_from_buffer(enc, from_index)
    /\ phase' = "extracted"
    /\ UNCHANGED << pkt, enc, from_index, api, tx, wk, falcon, session_vars >>

ExtractNext == Extract

SpecExtract == ExtractInit /\ [][ExtractNext]_vars

(***************************************************************************)
(* Connection_impl's transmit queue.  Handlers of the event loop (replies  *)
(* of the state machine, write completions, close) run one at a time; the  *)
(* solution callback is posted with asio::post without an executor and so  *)
(* runs on a thread of the system executor, whose steps through transmit   *)
(* interleave with the handlers of the event loop.  Payloads are numbered  *)
(* in the order in which transmit is called.                               *)
(***************************************************************************)
MaxTransmits == 3

\* Connection_impl::transmit_trigger: async_write of the front of the queue
transmit_trigger(C) == [C EXCEPT !.in_flight = Append(@, Head(C.m_tx_queue))]

\* Connection_impl::transmit as one step
queue_transmit(C, tx_buffer) ==
    IF ~C.m_connection_handler THEN C
    ELSE LET C1 == [C EXCEPT !.m_tx_queue = Append(@, tx_buffer)]
         IN  IF Len(C1.m_tx_queue) = 1 THEN transmit_trigger(C1) ELSE C1

\* the completion handler of async_write: the error code is not looked at
write_handler(C) ==
    IF ~C.m_connection_handler THEN C
    ELSE IF C.m_tx_queue = <<>> THEN [C EXCEPT !.crashed = TRUE]
    ELSE LET C1 == [C EXCEPT !.m_tx_queue = Tail(@)]
         IN  IF C1.m_tx_queue # <<>> THEN transmit_trigger(C1) ELSE C1

TxInit ==
    /\ pkt = Packet_default
    /\ enc = NullPayload
    /\ dec = NoDec
    /\ phase = "built"
    /\ from_index = 0
    /\ api = NoCall
    /\ tx = NoTx
    /\ falcon = FalconSignatureWrapper(TRUE, TRUE)
    /\ wk = NoWorkers
    /\ SessionInit("none", 2)

TxFrame == UNCHANGED << pkt, enc, dec, phase, from_index, api, wk, falcon, session_vars >>

\* the state machine answers a packet: transmit on the event loop
TxReply ==
    /\ ~tx.crashed
    /\ tx.calls < MaxTransmits
    /\ tx' = [queue_transmit(tx, tx.calls + 1) EXCEPT !.calls = @ + 1]
    /\ TxFrame

\* the posted solution callback calls m_connection->transmit
PoolTransmit ==
    /\ ~tx.crashed
    /\ tx.pool.pc = "idle"
    /\ tx.calls < MaxTransmits
    /\ tx' = [tx EXCEPT !.calls = @ + 1, !.pool_calls = @ + 1,
                        !.pool = [pc |-> "handler", tx_buffer |-> tx.calls + 1]]
    /\ TxFrame

\* transmit on the pool thread: if (m_connection_handler)
PoolTestHandler ==
    /\ ~tx.crashed
    /\ tx.pool.pc = "handler"
    /\ tx' = [tx EXCEPT !.pool.pc = IF tx.m_connection_handler
                                     THEN "emplace" ELSE "idle"]
    /\ TxFrame

\* transmit on the pool thread: m_tx_queue.emplace(tx_buffer)
PoolEmplace ==
    /\ ~tx.crashed
    /\ tx.pool.pc = "emplace"
    /\ tx' = [tx EXCEPT !.m_tx_queue = Append(@, tx.pool.tx_buffer),
                        !.pool.pc = "size"]
    /\ TxFrame

\* transmit on the pool thread: if (m_tx_queue.size() == 1) transmit_trigger()
PoolTestSize ==
    /\ ~tx.crashed
    /\ tx.pool.pc = "size"
    /\ tx' = [(IF Len(tx.m_tx_queue) = 1 THEN transmit_trigger(tx) ELSE tx)
                EXCEPT !.pool.pc = "idle"]
    /\ TxFrame

\* an async_write ends: its bytes are on the socket unless it failed, and
\* the completion handler runs on the event loop
WriteDone ==
    /\ ~tx.crashed
    /\ tx.in_flight # <<>>
    /\ \E written \in BOOLEAN :
         /\ written => tx.open
         /\ LET C == [tx EXCEPT !.in_flight = Tail(@),
                                !.socket = IF written THEN Append(@, Head(tx.in_flight))
                                           ELSE @,
                                !.write_errors = IF written THEN @ ELSE @ + 1]
            IN  tx' = write_handler(C)
    /\ TxFrame

\* Connection_impl::close_internal: the socket is shut down and closed and
\* the connection handler is released
TxClose ==
    /\ ~tx.crashed
    /\ tx.m_connection_handler
    /\ tx' = [tx EXCEPT !.m_connection_handler = FALSE, !.open = FALSE]
    /\ TxFrame

TxNext ==
    \/ TxReply
    \/ PoolTransmit
    \/ PoolTestHandler
    \/ PoolEmplace
    \/ PoolTestSize
    \/ WriteDone
    \/ TxClose

SpecTx == TxInit /\ [][TxNext]_vars

(***************************************************************************)
(* Two Worker_hash objects made by create_workers and their search         *)
(* threads.  set_block and the destructor are called on the event loop     *)
(* and run statement by statement against the search thread.               *)
(***************************************************************************)
MaxSetBlocks == 2

\* positions in the list of worker configurations
WorkerPositions == {0, 1, 255, 65535, 65536}

WorkerBlocks == {1, 2}

WorkerInit ==
    /\ pkt = Packet_default
    /\ enc = NullPayload
    /\ dec = NoDec
    /\ phase = "built"
    /\ from_index = 0
    /\ api = NoCall
    /\ tx = NoTx
    /\ falcon = FalconSignatureWrapper(TRUE, TRUE)
    /\ \E p, q \in WorkerPositions :
         /\ p < q
         /\ wk = << Worker_hash(p), Worker_hash(q) >>
    /\ SessionInit("none", 2)

WorkerFrame == UNCHANGED << pkt, enc, dec, phase, from_index, api, tx, falcon, session_vars >>

\* set_block: m_stop = true
SetBlockStop(w) ==
    /\ wk[w].pc = "idle"
    /\ wk[w].set_blocks < MaxSetBlocks
    /\ \E b \in WorkerBlocks :
         wk' = [wk EXCEPT ![w].m_stop = TRUE, ![w].pc = "join", ![w].block = b,
                          ![w].set_blocks = @ + 1]
    /\ WorkerFrame

\* set_block: if (m_run_thread.joinable()) m_run_thread.join()
SetBlockJoin(w) ==
    /\ wk[w].pc = "join"
    /\ join_returns(wk[w].m_run_thread)
    /\ wk' = [wk EXCEPT ![w].m_run_thread = "none", ![w].pc = "change"]
    /\ WorkerFrame

\* set_block: the statements under m_mtx
SetBlockChange(w) ==
    /\ wk[w].pc = "change"
    /\ wk' = [wk EXCEPT ![w].m_found_nonce_callback = TRUE,
                        ![w].m_block = wk[w].block,
                        ![w].m_starting_nonce =
                            shift_left_48(to_uint64(wk[w].m_internal_id)),
                        ![w].pc = "launch"]
    /\ WorkerFrame

\* set_block: m_stop = false; m_run_thread = std::thread(&Worker_hash::run, this)
SetBlockLaunch(w) ==
    /\ wk[w].pc = "launch"
    /\ wk' = [wk EXCEPT ![w].m_stop = FALSE, ![w].m_run_thread = "running",
                        ![w].threads = @ + 1, ![w].pc = "idle"]
    /\ WorkerFrame

\* run: one pass of while (!m_stop)
RunHash(w) ==
    /\ wk[w].threads > 0
    /\ ~wk[w].m_stop
    /\ wk[w].hashed # wk[w].m_block
    /\ wk' = [wk EXCEPT ![w].hashed = wk[w].m_block]
    /\ WorkerFrame

\* run: m_stop is read as true and the thread leaves run()
RunExit(w) ==
    /\ wk[w].threads > 0
    /\ wk[w].m_stop
    /\ wk' = [wk EXCEPT ![w].threads = @ - 1,
                        ![w].m_run_thread = IF wk[w].threads = 1 THEN "exited" ELSE @]
    /\ WorkerFrame

\* ~Worker_hash: m_stop = true
DestroyStop(w) ==
    /\ wk[w].pc = "idle"
    /\ wk' = [wk EXCEPT ![w].m_stop = TRUE, ![w].pc = "destroy"]
    /\ WorkerFrame

\* ~Worker_hash: if (m_run_thread.joinable()) m_run_thread.join()
DestroyJoin(w) ==
    /\ wk[w].pc = "destroy"
    /\ join_returns(wk[w].m_run_thread)
    /\ wk' = [wk EXCEPT ![w].m_run_thread = "none", ![w].pc = "destroyed"]
    /\ WorkerFrame

WorkerNext ==
    \E w \in 1..2 :
        \/ SetBlockStop(w)
        \/ SetBlockJoin(w)
        \/ SetBlockChange(w)
        \/ SetBlockLaunch(w)
        \/ RunHash(w)
        \/ RunExit(w)
        \/ DestroyStop(w)
        \/ DestroyJoin(w)

SpecWorker == WorkerInit /\ [][WorkerNext]_vars

(***************************************************************************)
(* The signing operations of FalconSignatureWrapper, called in any order   *)
(* with any data, kind and outcome of keys::falcon_sign.                   *)
(***************************************************************************)
MaxSignCalls == 3

SignatureTypes == {"AUTHENTICATION", "BLOCK", "PAYLOAD"}

SignData == { <<>>, <<1, 2>> }

FalconInit ==
    /\ pkt = Packet_default
    /\ enc = NullPayload
    /\ dec = NoDec
    /\ phase = "built"
    /\ from_index = 0
    /\ api = NoCall
    /\ tx = NoTx
    /\ wk = NoWorkers
    /\ \E keys_valid, has_privkey \in BOOLEAN :
         /\ keys_valid => has_privkey
         /\ falcon = FalconSignatureWrapper(keys_valid, has_privkey)
    /\ SessionInit("none", 2)

FalconFrame ==
    UNCHANGED << pkt, enc, dec, phase, from_index, api, tx, wk, session_vars >>

\* the call is recorded with its kind and outcome
Signed(r, op, type) ==
    [r.falcon EXCEPT !.calls = @ + 1,
                     !.last = [op |-> op, type |-> type, success |-> r.success]]

SignPayload ==
    /\ falcon.calls < MaxSignCalls
    /\ \E payload \in SignData, type \in SignatureTypes, signed \in BOOLEAN :
         falcon' = Signed(wrapper_sign_payload(falcon, payload, type, signed),
                          "sign_payload", type)
    /\ FalconFrame

SignBlock ==
    /\ falcon.calls < MaxSignCalls
    /\ \E block_data \in SignData, signed \in BOOLEAN :
         falcon' = Signed(wrapper_sign_block(falcon, block_data, signed),
                          "sign_block", "BLOCK")
    /\ FalconFrame

SignAuthentication ==
    /\ falcon.calls < MaxSignCalls
    /\ \E address \in SignData, signed \in BOOLEAN :
         falcon' = Signed(wrapper_sign_authentication(falcon, address, signed),
                          "sign_authentication", "AUTHENTICATION")
    /\ FalconFrame

\* FalconSignatureWrapper::reset_stats
ResetSignatureStats ==
    /\ falcon.m_total_signatures > 0
    /\ falcon' = [falcon EXCEPT !.m_total_signatures = 0, !.m_auth_signatures = 0,
                                !.m_block_signatures = 0,
                                !.m_payload_signatures = 0,
                                !.last.op = "reset_stats"]
    /\ FalconFrame

FalconNext ==
    \/ SignPayload
    \/ SignBlock
    \/ SignAuthentication
    \/ ResetSignatureStats

SpecFalcon == FalconInit /\ [][FalconNext]_vars

(***************************************************************************)
(* The loop of Worker_manager::process_data, one iteration per step: enc   *)
(* is the receive buffer, dec the last extraction with the remaining size, *)
(* from_index the start index handed to the parser and pkt the last packet *)
(* that passed is_valid and was dispatched.  What the dispatch does to the *)
(* session is the Receive action.                                          *)
(***************************************************************************)
MaxFrames == 3

\* frames and fragments a read can hold: a header-only packet, a
\* CHANNEL_ACK with a payload (fails is_valid), a data packet, a truncated
\* length field, a packet longer than what is left
LoopFrames ==
    { <<129>>, <<129, 0, 0, 0, 0>>, <<206, 0, 0, 0, 1, 2>>,
      <<0, 0, 0, 0, 2, 7, 7>>, <<1, 0, 0>>, <<0, 0, 0, 0, 9, 7>> }

RECURSIVE FramesUpTo(_)
FramesUpTo(n) ==
    IF n = 0 THEN { <<>> }
    ELSE FramesUpTo(n - 1)
         \cup { b \o f : b \in FramesUpTo(n - 1), f \in LoopFrames }

ProcessDataInit ==
    /\ pkt = Packet_default
    /\ \E b \in FramesUpTo(MaxFrames) :
         /\ enc = Shared(b)
         /\ dec = [packet |-> Packet_default, remaining_size |-> Len(b)]
    /\ from_index = 0
    /\ phase = "received"
    /\ api = NoCall
    /\ tx = NoTx
    /\ falcon = FalconSignatureWrapper(TRUE, TRUE)
    /\ wk = NoWorkers
    /\ SessionInit("valid", 2)

\* one pass of the do-while loop
ProcessDataIteration ==
    /\ phase \in {"received", "looping"}
    /\ LET start_index == Len(enc.bytes) - dec.remaining_size
           r == extract_packet_from_buffer(enc, start_index)
       IN  /\ from_index' = start_index
           /\ dec' = r
           /\ pkt' = IF is_valid(r.packet) THEN r.packet ELSE pkt
           /\ phase' = IF r.remaining_size # 0 THEN "looping" ELSE "done"
    /\ UNCHANGED << enc, api, tx, wk, falcon, session_vars >>

ProcessDataNext == ProcessDataIteration

SpecProcessData == ProcessDataInit /\ [][ProcessDataNext]_vars

\* the loop runs on without being suspended for ever
SpecProcessDataFair == SpecProcessData /\ WF_vars(ProcessDataIteration)

(***************************************************************************)
(* The public operations of MiningTemplateInterface, called in any order   *)
(* with arguments drawn from bounded sets.                                 *)
(***************************************************************************)
MaxTemplateReads == 3
MaxVerified == 2

\* template data: null, empty, too short to parse, and headers that pass or
\* fail each validation check
\* bytes that follow a block header in a BLOCK_DATA payload
Trailers == { <<7>>, <<0, 0>> }

TemplateInputs ==
    { NullPayload, Shared(<<>>), Shared([i \in 1..92 |-> 1]),
      Shared(serialize_block_header(NodeBlock(2, 3, 5)) \o <<7>>) }
    \cup { Shared(serialize_block_header(b)) :
             b \in { NodeBlock(2, 1, 5), NodeBlock(2, 3, 5), NodeBlock(1, 3, 5),
                     NodeBlock(2, 3, 0),
                     [NodeBlock(2, 3, 5) EXCEPT !.hashMerkleRoot = Zeros(64)] } }

MerkleRoots == { [i \in 1..n |-> 9] : n \in {0, 32, 33, 64} }
Nonces == {0, 5}
SessionIds == {0, 7}

TemplateInit ==
    /\ pkt = Packet_default
    /\ enc = NullPayload
    /\ dec = NoDec
    /\ phase = "built"
    /\ from_index = 0
    /\ api = NoCall
    /\ tx = NoTx
    /\ falcon = FalconSignatureWrapper(TRUE, TRUE)
    /\ wk = NoWorkers
    /\ \E channel \in Channels : SessionInit("none", channel)

TemplateFrame ==
    UNCHANGED << pkt, enc, dec, phase, from_index, tx, wk, falcon,
                 solo, wm, conn, worker, wire, rd, node >>

ReadTemplate ==
    /\ tmpl.stats.templates_received < MaxTemplateReads
    /\ \E data \in TemplateInputs :
         LET r == read_template(tmpl, data)
         IN  /\ tmpl' = r.tmpl
             /\ api' = [NoCall EXCEPT !.op = "read_template", !.data = data,
                                      !.result = r.result.is_valid,
                                      !.is_stale = r.result.is_stale,
                                      !.validation = r.result]
    /\ TemplateFrame

MarkTemplateStale ==
    /\ tmpl' = mark_template_stale(tmpl)
    /\ api' = [NoCall EXCEPT !.op = "mark_template_stale"]
    /\ TemplateFrame

VerifyBlockCreation ==
    /\ \E merkle_root \in MerkleRoots, nonce \in Nonces :
         api' = [NoCall EXCEPT !.op = "verify_block_creation",
                               !.merkle_root = merkle_root, !.nonce = nonce,
                               !.result = verify_block_creation(tmpl, merkle_root,
                                                                nonce)]
    /\ UNCHANGED tmpl
    /\ TemplateFrame

PrepareBlockSubmission ==
    /\ tmpl.stats.blocks_verified < MaxVerified
    /\ \E merkle_root \in MerkleRoots, nonce \in Nonces :
         LET r == prepare_block_submission(tmpl, merkle_root, nonce)
         IN  /\ tmpl' = r.tmpl
             /\ api' = [NoCall EXCEPT !.op = "prepare_block_submission",
                                      !.merkle_root = merkle_root, !.nonce = nonce,
                                      !.result = r.payload # <<>>,
                                      !.payload = r.payload]
    /\ TemplateFrame

SetSessionId ==
    /\ \E session_id \in SessionIds :
         /\ tmpl' = set_session_id(tmpl, session_id)
         /\ api' = [NoCall EXCEPT !.op = "set_session_id"]
    /\ TemplateFrame

SetTemplateFeedHandler ==
    /\ ~tmpl.m_feed_handler
    /\ tmpl' = set_template_feed_handler(tmpl)
    /\ api' = [NoCall EXCEPT !.op = "set_template_feed_handler"]
    /\ TemplateFrame

TemplateNext ==
    \/ ReadTemplate
    \/ MarkTemplateStale
    \/ VerifyBlockCreation
    \/ PrepareBlockSubmission
    \/ SetSessionId
    \/ SetTemplateFeedHandler

SpecTemplate == TemplateInit /\ [][TemplateNext]_vars

\* the payload bytes a packet carries (none when m_data is null)
PayloadOf(p) == IF p.m_data.null THEN <<>> ELSE p.m_data.bytes

(***************************************************************************)
(* Claims about the codec, checked under SpecCodec                         *)
(***************************************************************************)
\* C7: framed round trip.  For every packet p with p.is_valid(), parsing
\* p.get_bytes() from offset 0 returns a valid packet with the same opcode, the
\* same length and the same payload bytes, and leaves remaining_size = 0.
C7_FramedRoundTrip ==
    (phase = "decoded" /\ is_valid(pkt)) =>
        /\ is_valid(dec.packet)
        /\ dec.packet.m_header = pkt.m_header
        /\ dec.packet.m_length = pkt.m_length
        /\ PayloadOf(dec.packet) = PayloadOf(pkt)
        /\ dec.remaining_size = 0

\* a data packet with a two-byte payload came back from the parser
C7_Witness ==
    /\ phase = "decoded"
    /\ is_valid(pkt)
    /\ pkt.m_header = SET_CHANNEL
    /\ pkt.m_length = 2
    /\ dec.packet.m_is_valid
    /\ PayloadOf(dec.packet) = <<1, 255>>

\* C8: get_bytes encodes a valid header-only packet (non-auth opcode >= 128,
\* length 0) as the single opcode byte, a valid data packet with n > 0 payload
\* bytes (opcode < 128 or 207..212) as opcode, n as u32 big-endian, payload
\* (5 + n bytes), and returns no bytes for a packet that is not valid.
C8_GetBytesEncoding ==
    phase = "encoded" =>
        /\ (is_valid(pkt) /\ pkt.m_length = 0 /\ pkt.m_header >= 128
                /\ ~is_auth_packet(pkt))
              => (~enc.null /\ enc.bytes = <<pkt.m_header>>)
        /\ (is_valid(pkt) /\ pkt.m_length > 0
                /\ (pkt.m_header < 128 \/ is_auth_packet(pkt)))
              => /\ ~enc.null
                 /\ Len(enc.bytes) = 5 + pkt.m_length
                 /\ enc.bytes[1] = pkt.m_header
                 /\ be32(enc.bytes[2], enc.bytes[3], enc.bytes[4], enc.bytes[5])
                        = pkt.m_length
                 /\ SubSeq(enc.bytes, 6, 5 + pkt.m_length) = PayloadOf(pkt)
        /\ (~is_valid(pkt)) => enc.null

\* GET_BLOCK was encoded as one byte
C8_Witness ==
    /\ phase = "encoded"
    /\ pkt = Packet_header(GET_BLOCK)
    /\ enc = Shared(<<GET_BLOCK>>)

\* C9: for every data-class opcode o in 0..127 a packet with opcode o and an
\* empty payload is rejected by is_valid, and get_bytes returns nothing for it.
C9_EmptyDataPacketRejected ==
    (phase = "encoded" /\ pkt.m_header <= 127 /\ pkt.m_length = 0) =>
        (~is_valid(pkt) /\ enc.null)

\* C10: for every auth-class opcode 207..212 is_valid is false when the
\* packet's length is 0.
C10_EmptyAuthPacketRejected ==
    (phase = "encoded" /\ is_auth_packet(pkt) /\ pkt.m_length = 0) =>
        ~is_valid(pkt)

(***************************************************************************)
(* Claims about the session, checked under Spec                            *)
(***************************************************************************)
\* two packets with the same opcode, length and payload bytes
SamePacket(p, q) ==
    p.m_header = q.m_header /\ p.m_length = q.m_length /\ PayloadOf(p) = PayloadOf(q)

SamePackets(ps, qs) ==
    Len(ps) = Len(qs) /\ \A i \in 1..Len(ps) : SamePacket(ps[i], qs[i])

AllValid(ps) == \A i \in 1..Len(ps) : is_valid(ps[i])

IsAuthResult(p) ==
    p.m_header = MINER_AUTH_RESULT /\ ~p.m_data.null /\ p.m_length >= 1

\* C1: every payload handed to the connection while m_authenticated is false
\* is the MINER_AUTH_RESPONSE; no GET_BLOCK, SET_CHANNEL or SUBMIT_BLOCK is
\* transmitted unauthenticated.
C1_OnlyAuthResponseWhileUnauthenticated ==
    \A i \in 1..Len(wire) :
        ~wire[i].authenticated =>
            /\ ~wire[i].payload.null
            /\ wire[i].payload.bytes[1] = MINER_AUTH_RESPONSE

\* C2: SET_CHANNEL is transmitted only in response to a successful
\* MINER_AUTH_RESULT, with the one-byte payload m_channel, and never on a
\* connection that has seen a failed MINER_AUTH_RESULT.
C2_SetChannelOnlyAfterAuthSuccess ==
    \A i \in 1..Len(wire) :
        (~wire[i].payload.null /\ wire[i].payload.bytes[1] = SET_CHANNEL) =>
            /\ wire[i].payload.bytes = <<SET_CHANNEL, 0, 0, 0, 1, solo.m_channel>>
            /\ wire[i].authenticated
            /\ ~wire[i].after_auth_fail

\* C3: once a MINER_AUTH_RESULT with status 0 has been processed the socket
\* is closed and the connection retry timer is armed.
C3_AuthFailureClosesAndRearms ==
    (/\ rd.dispatched # <<>>
     /\ IsAuthResult(rd.dispatched[Len(rd.dispatched)])
     /\ PayloadOf(rd.dispatched[Len(rd.dispatched)])[1] = 0)
    => (~wm.m_connection /\ conn.state # "open" /\ wm.retry_timer)

\* C4: the template interface's session id equals Solo's m_session_id in
\* every state, and right after a successful MINER_AUTH_RESULT of at least
\* 5 bytes both equal the little-endian uint32 held in payload bytes 1..4.
C4_SessionIdBound ==
    /\ tmpl.m_session_id = solo.m_session_id
    /\ (/\ rd.dispatched # <<>>
        /\ IsAuthResult(rd.dispatched[Len(rd.dispatched)])
        /\ PayloadOf(rd.dispatched[Len(rd.dispatched)])[1] # 0
        /\ rd.dispatched[Len(rd.dispatched)].m_length >= 5)
       => LET d == PayloadOf(rd.dispatched[Len(rd.dispatched)])
              id == d[2] + 256 * d[3] + 65536 * d[4] + 16777216 * d[5]
          IN  solo.m_session_id = id /\ tmpl.m_session_id = id

\* a successful MINER_AUTH_RESULT carrying session id 0x40302010 was just processed
C4_Witness ==
    /\ rd.dispatched = <<AuthResultOkWithId>>
    /\ solo.m_authenticated
    /\ solo.m_session_id = 1076895760
    /\ tmpl.m_session_id = 1076895760

\* C5: a receive buffer holding a sequence of whole valid packets is
\* dispatched as exactly those packets, once each, in wire order.
C5_CoalescedPacketsDispatchedInOrder ==
    (rd.n > 0 /\ rd.aligned /\ AllValid(rd.completed))
        => SamePackets(rd.dispatched, rd.completed)

\* C6: a packet that arrives split over three reads (3 bytes, 2 bytes, the
\* rest) is dispatched exactly once by the read that completes it, and a
\* read that completes no packet dispatches and transmits nothing.
C6_SplitPacketDispatchedOnce ==
    /\ (/\ rd.n > 0
        /\ Len(rd.frags) = 3 /\ rd.frags[1] = 3 /\ rd.frags[2] = 2
        /\ Len(rd.completed) = 1 /\ rd.left = 0 /\ AllValid(rd.completed))
       => SamePackets(rd.dispatched, rd.completed)
    /\ (rd.n > 0 /\ rd.completed = <<>>)
       => (rd.dispatched = <<>> /\ Len(wire) = rd.wire_before)

(***************************************************************************)
(* C11: for every buffer and start index, extract_packet_from_buffer       *)
(* either returns an invalid packet without payload, or a packet whose     *)
(* payload is exactly the declared number of bytes taken from inside the   *)
(* buffer behind the 5-byte header, with remaining_size equal to the bytes *)
(* left behind that packet.                                                *)
(***************************************************************************)
C11_ExtractStaysInsideBuffer ==
    phase = "extracted" =>
        LET p == dec.packet
            size == IF enc.null THEN 0 ELSE Len(enc.bytes)
            left == size - from_index
        IN  \/ /\ ~p.m_is_valid
               /\ p.m_data.null
               /\ dec.remaining_size = 0
            \/ /\ p.m_is_valid
               /\ from_index < size
               /\ p.m_header = enc.bytes[from_index + 1]
               /\ IF p.m_data.null
                  THEN left = 1 /\ dec.remaining_size = 0
                  ELSE /\ left >= 5
                       /\ p.m_length = Len(p.m_data.bytes)
                       /\ p.m_length <= left - 5
                       /\ p.m_data.bytes = SubSeq(enc.bytes, from_index + 6,
                                                  from_index + 5 + p.m_length)
                       /\ dec.remaining_size = left - 5 - p.m_length

\* a packet with a non-empty payload is committed from a buffer
C11_Witness ==
    /\ phase = "extracted"
    /\ dec.packet.m_is_valid
    /\ dec.packet.m_length > 0
    /\ ~dec.packet.m_data.null
    /\ Len(dec.packet.m_data.bytes) = dec.packet.m_length

(***************************************************************************)
(* C12: in every read that leaves the connection up, the set-block handler *)
(* of the workers is invoked once per BLOCK_DATA that passed validation    *)
(* and never for one that failed; when the read ends with a validated      *)
(* BLOCK_DATA, the worker holds that header (nonce reset) with the bits of *)
(* the header and the session's current height is the template's height.  *)
(***************************************************************************)
C12_ValidatedTemplateFedOnce ==
    [][ (rd' # NoRead /\ wm'.m_connection) =>
          LET calls == worker'.set_block_calls - worker.set_block_calls
              validated == tmpl'.stats.templates_validated
                             - tmpl.stats.templates_validated
              t == tmpl'.m_current_template
              n == Len(rd'.dispatched)
          IN  /\ calls = validated
              /\ ( /\ validated > 0
                   /\ n > 0
                   /\ rd'.dispatched[n].m_header = BLOCK_DATA
                   /\ deserialize_block_header(PayloadOf(rd'.dispatched[n])).block
                        = t.block )
                 => /\ worker'.m_block = [t.block EXCEPT !.nNonce = 0]
                    /\ worker'.m_pool_nbits = t.block.nBits
                    /\ solo'.m_current_height = t.block.nHeight
      ]_vars

\* a validated template has been handed to the worker
C12_Witness ==
    /\ rd # NoRead
    /\ wm.m_connection
    /\ worker.set_block_calls > 0
    /\ tmpl.stats.templates_validated > 0
    /\ worker.m_block = [tmpl.m_current_template.block EXCEPT !.nNonce = 0]
    /\ solo.m_current_height = tmpl.m_current_template.block.nHeight

C14_FailedReadOfBytesCountedOnce ==
    [][ ( /\ api'.op = "read_template"
          /\ ~api'.result
          /\ ~api'.data.null
          /\ api'.data.bytes # <<>> ) =>
          /\ tmpl'.m_current_template = tmpl.m_current_template
          /\ tmpl'.m_current_height = tmpl.m_current_height
          /\ tmpl'.m_session_id = tmpl.m_session_id
          /\ tmpl'.stats.templates_rejected = tmpl.stats.templates_rejected + 1
      ]_vars

(***************************************************************************)
(* C15: verify_block_creation returns true exactly when the current        *)
(* template is VALIDATED or ACTIVE and the merkle root is 32 or 64 bytes   *)
(* long, whatever the nonce (0 included); prepare_block_submission returns *)
(* an empty payload in exactly the cases where verification fails and      *)
(* merkle_root + nonce (little-endian) otherwise; after mark_template_stale *)
(* no input verifies, and that stays so until a new template validates.    *)
(***************************************************************************)
C15_VerifyBlockCreation ==
    [][ LET state == tmpl.m_current_template.state
            ok == /\ state \in {"VALIDATED", "ACTIVE"}
                  /\ Len(api'.merkle_root) \in {32, 64}
            unverifiable(T) ==
                \A merkle_root \in MerkleRoots, nonce \in Nonces :
                    /\ ~verify_block_creation(T, merkle_root, nonce)
                    /\ prepare_block_submission(T, merkle_root, nonce).payload = <<>>
        IN  /\ api'.op = "verify_block_creation" => api'.result = ok
            /\ api'.op = "prepare_block_submission" =>
                   api'.payload = IF ok THEN api'.merkle_root
                                               \o length_bytes_le(api'.nonce)
                                               \o <<0, 0, 0, 0>>
                                  ELSE <<>>
            /\ api'.op = "mark_template_stale" => unverifiable(tmpl')
            /\ ( /\ unverifiable(tmpl)
                 /\ tmpl'.stats.templates_validated = tmpl.stats.templates_validated )
               => unverifiable(tmpl')
      ]_vars

\* a zero nonce is verified against a 32-byte merkle root on a template
\* that validated after an earlier one went stale
C15_Witness ==
    /\ api.op = "verify_block_creation"
    /\ api.nonce = 0
    /\ Len(api.merkle_root) = 32
    /\ api.result
    /\ tmpl.stats.templates_stale > 0
    /\ tmpl.stats.templates_validated > 1

(***************************************************************************)
(* C16: a BLOCK_DATA payload of exactly 92 bytes is parsed into a header   *)
(* by the session: the read that dispatches it hands it to the template    *)
(* interface, where it parses and is counted as received.                  *)
(***************************************************************************)
C16_CompactHeaderParsed ==
    [][ ( /\ rd' # NoRead
          /\ wm'.m_connection
          /\ Len(rd'.dispatched) = 1
          /\ rd'.dispatched[1].m_header = BLOCK_DATA
          /\ rd'.dispatched[1].m_length = 92 )
        => /\ deserialize_block_header(PayloadOf(rd'.dispatched[1])).ok
           /\ tmpl'.stats.templates_received = tmpl.stats.templates_received + 1
      ]_vars

(***************************************************************************)
(* C17: a read made of whole CHANNEL_ACK, ACCEPT and REJECT packets puts   *)
(* exactly one GET_BLOCK (the single byte 0x81) on the wire for each of    *)
(* them, adds one to the accepted-blocks counter for each ACCEPT and one   *)
(* to the rejected-blocks counter for each REJECT.                         *)
(***************************************************************************)
C17_OneGetBlockPerAck ==
    [][ ( /\ rd' # NoRead
          /\ wm'.m_connection
          /\ rd'.aligned
          /\ rd'.completed # <<>>
          /\ \A i \in 1..Len(rd'.completed) :
                rd'.completed[i].m_header \in {CHANNEL_ACK, ACCEPT, REJECT} )
        => LET count(header) ==
                   Cardinality({ i \in 1..Len(rd'.completed) :
                                   rd'.completed[i].m_header = header })
           IN  /\ Len(wire') = Len(wire) + Len(rd'.completed)
               /\ \A i \in (Len(wire) + 1)..Len(wire') :
                     wire'[i].payload = Shared(<<129>>)
               /\ wm'.m_accepted_blocks = wm.m_accepted_blocks + count(ACCEPT)
               /\ wm'.m_rejected_blocks = wm.m_rejected_blocks + count(REJECT)
      ]_vars

\* the same for a read that holds exactly one header-only packet
C17_OneGetBlockPerLoneAck ==
    [][ ( /\ rd' # NoRead
          /\ wm'.m_connection
          /\ rd'.aligned
          /\ Len(rd'.completed) = 1
          /\ rd'.completed[1].m_header \in {CHANNEL_ACK, ACCEPT, REJECT}
          /\ rd'.completed[1].m_length = 0 )
        => /\ wire' = Append(wire, [payload |-> Shared(<<129>>),
                                    authenticated |-> solo.m_authenticated,
                                    after_auth_fail |-> conn.auth_failed])
           /\ wm'.m_accepted_blocks = wm.m_accepted_blocks
                 + (IF rd'.completed[1].m_header = ACCEPT THEN 1 ELSE 0)
           /\ wm'.m_rejected_blocks = wm.m_rejected_blocks
                 + (IF rd'.completed[1].m_header = REJECT THEN 1 ELSE 0)
      ]_vars

SubmitBlocksOn(w) ==
    Cardinality({ i \in 1..Len(w) : /\ ~w[i].payload.null
                                    /\ w[i].payload.bytes # <<>>
                                    /\ w[i].payload.bytes[1] = SUBMIT_BLOCK })

C20_StaleSolutionIgnored ==
    [][ ( /\ worker'.posted < worker.posted
          /\ worker.posted_for # worker.set_block_calls )
        => SubmitBlocksOn(wire') <= SubmitBlocksOn(wire)
      ]_vars

C22_TemplateStaleAfterDisconnect ==
    [][ /\ (wm.m_connection /\ ~wm'.m_connection) => ~has_valid_template(tmpl')
        /\ SubmitBlocksOn(wire') > SubmitBlocksOn(wire)
              => tmpl.stats.templates_validated > 0
      ]_vars

\* the second half alone
C22_NoSubmitForEarlierConnection ==
    [][ SubmitBlocksOn(wire') > SubmitBlocksOn(wire)
          => tmpl.stats.templates_validated > 0 ]_vars

(***************************************************************************)
(* C23: on a connection made after a disconnect the first payload handed   *)
(* to the connection is a MINER_AUTH_RESPONSE, and every GET_BLOCK on it   *)
(* is sent by an authenticated session after SET_CHANNEL has been sent.    *)
(***************************************************************************)
C23_ReconnectRunsHandshake ==
    wm.connects > 1 =>
        /\ wire # <<>> =>
              /\ ~wire[1].payload.null
              /\ wire[1].payload.bytes[1] = MINER_AUTH_RESPONSE
        /\ \A i \in 1..Len(wire) :
              (~wire[i].payload.null /\ wire[i].payload.bytes = <<GET_BLOCK>>)
              => /\ wire[i].authenticated
                 /\ \E j \in 1..(i - 1) :
                       /\ ~wire[j].payload.null
                       /\ wire[j].payload.bytes[1] = SET_CHANNEL

\* the payloads in w are in the order in which transmit was called, each once
InCallOrder(w) == \A i, j \in 1..Len(w) : i < j => w[i] < w[j]

(***************************************************************************)
(* C24: on a connection at most one asynchronous write is in flight at any *)
(* time, the payloads reach the socket in the order in which transmit was  *)
(* called (calls of posted solution callbacks included), and nothing is    *)
(* written once the connection is closed.                                  *)
(***************************************************************************)
C24_SingleWriterInOrder ==
    [][ /\ Len(tx'.in_flight) <= 1
        /\ InCallOrder(tx'.socket)
        /\ ~tx.open => tx'.socket = tx.socket
      ]_vars

\* the same as long as every transmit call was made on the event loop
C24_SingleWriterOnEventLoop ==
    [][ tx'.pool_calls = 0 =>
          /\ Len(tx'.in_flight) <= 1
          /\ InCallOrder(tx'.socket)
          /\ ~tx.open => tx'.socket = tx.socket
      ]_vars

(***************************************************************************)
(* C25: an asynchronous write that fails on an open connection is treated  *)
(* as a lost connection: the connection handler is told and released, and  *)
(* the writes queued behind the failed one are not started.                *)
(***************************************************************************)
C25_FailedWriteClosesConnection ==
    [][ (tx.open /\ tx'.write_errors > tx.write_errors) =>
          /\ ~tx'.m_connection_handler
          /\ tx'.in_flight = Tail(tx.in_flight)
      ]_vars

(***************************************************************************)
(* C26: a worker has at most one search thread at any time: set_block has  *)
(* stopped and joined the previous thread before it changes the block, the *)
(* starting nonce or the callback and before it starts the new thread, and *)
(* a destroyed worker has no thread left.                                  *)
(***************************************************************************)
C26_OneSearchThread ==
    [][ \A w \in 1..2 :
          /\ wk'[w].threads <= 1
          /\ ( \/ wk'[w].m_block # wk[w].m_block
               \/ wk'[w].m_starting_nonce # wk[w].m_starting_nonce
               \/ wk'[w].m_found_nonce_callback # wk[w].m_found_nonce_callback )
                => (wk[w].threads = 0 /\ wk[w].m_stop)
          /\ wk'[w].threads > wk[w].threads => wk[w].threads = 0
          /\ wk'[w].pc = "destroyed" => wk'[w].threads = 0
      ]_vars

\* a worker searching its second block, and a worker destroyed after a search
C26_Witness ==
    /\ wk[1].set_blocks = 2 /\ wk[1].threads = 1 /\ wk[1].hashed = wk[1].m_block
    /\ wk[2].pc = "destroyed" /\ wk[2].hashed # 0

(***************************************************************************)
(* C27: two workers with different internal ids i and j are seeded with    *)
(* different starting nonces, and each starting nonce is exactly id * 2^48 *)
(* (the id in the top 16 bits of the 64, nothing shifted out).             *)
(***************************************************************************)
C27_DistinctStartingNonces ==
    \A v, w \in 1..2 :
        (wk[v].m_block # 0 /\ wk[w].m_block # 0) =>
            /\ wk[w].m_starting_nonce = << 0, 0, 0, wk[w].m_internal_id >>
            /\ wk[w].m_internal_id < 65536
            /\ wk[v].m_internal_id # wk[w].m_internal_id
                  => wk[v].m_starting_nonce # wk[w].m_starting_nonce

\* both workers seeded, one with the largest 16-bit id
C27_Witness ==
    /\ wk[1].m_block # 0 /\ wk[2].m_block # 0
    /\ wk[1].m_internal_id = 255 /\ wk[2].m_internal_id = 65535
    /\ wk[1].m_starting_nonce # wk[2].m_starting_nonce

(***************************************************************************)
(* C28: in every reachable state the session id is 0 exactly when the      *)
(* session is not authenticated.                                           *)
(***************************************************************************)
C28_SessionIdIffAuthenticated ==
    (solo.m_session_id = 0) <=> ~solo.m_authenticated

\* authenticated implies a session id
C28_AuthenticatedHasSessionId ==
    solo.m_authenticated => solo.m_session_id # 0

\* unauthenticated implies no session id
C28_UnauthenticatedHasNoSessionId ==
    ~solo.m_authenticated => solo.m_session_id = 0

\* the number of GET_BLOCK payloads among the transmissions after the first n
RECURSIVE GetBlocksAfter(_, _)
GetBlocksAfter(w, n) ==
    IF Len(w) <= n THEN 0
    ELSE (IF w[Len(w)].payload = get_work THEN 1 ELSE 0)
         + GetBlocksAfter(SubSeq(w, 1, Len(w) - 1), n)

(***************************************************************************)
(* C29: the GET_BLOCK re-sends for consecutive failing BLOCK_DATA packets  *)
(* are bounded by a retry limit.  The largest limit that the bound on the  *)
(* node's packets can tell from no limit is MaxSent - 1: a run of more     *)
(* failing packets than that is answered with no more GET_BLOCKs than it.  *)
(***************************************************************************)
C29_GetBlockRetriesBounded ==
    [][ ( /\ rd' # NoRead
          /\ wm'.m_connection
          /\ Len(rd'.dispatched) > (MaxSent - 1)
          /\ \A i \in 1..Len(rd'.dispatched) :
                /\ rd'.dispatched[i].m_header = BLOCK_DATA
                /\ rd'.dispatched[i].m_length < MIN_BLOCK_HEADER_SIZE )
        => GetBlocksAfter(wire', Len(wire)) <= (MaxSent - 1)
      ]_vars

\* every short BLOCK_DATA of a run is answered with a GET_BLOCK, however
\* many came before it
C29_EveryFailureRequestsAgain ==
    [][ ( /\ rd' # NoRead
          /\ wm'.m_connection
          /\ \A i \in 1..Len(rd'.dispatched) :
                /\ rd'.dispatched[i].m_header = BLOCK_DATA
                /\ rd'.dispatched[i].m_length < MIN_BLOCK_HEADER_SIZE )
        => GetBlocksAfter(wire', Len(wire)) = Len(rd'.dispatched)
      ]_vars

(***************************************************************************)
(* C30: template validation is fail-fast in the order Parse, Channel,      *)
(* Height, Bits, Merkle: the message and the flags of a rejected template  *)
(* are those of the first check that fails, and no later check changes     *)
(* them.                                                                   *)
(***************************************************************************)
C30_FirstFailingCheckReported ==
    ( /\ api.op = "read_template"
      /\ ~api.data.null
      /\ api.data.bytes # <<>>
      /\ deserialize_block_header(api.data.bytes).ok
      /\ ~api.validation.is_valid )
    => LET b == deserialize_block_header(api.data.bytes).block
           v == api.validation
           first == IF b.nChannel # tmpl.m_channel THEN "channel"
                    ELSE IF is_stale_height(tmpl.m_current_height, b.nHeight)
                         THEN "stale"
                    ELSE IF b.nBits = 0 THEN "bits"
                    ELSE "merkle"
       IN  /\ v.error_message = first
           /\ v.channel_valid = (first # "channel")
           /\ v.height_valid = (first # "stale")
           /\ v.is_stale = (first = "stale")
           /\ v.bits_valid = (first # "bits")
           /\ v.merkle_valid = (first # "merkle")

\* a template that fails one check only is reported with that check
C30_SingleFailureReported ==
    ( /\ api.op = "read_template"
      /\ ~api.data.null
      /\ api.data.bytes # <<>>
      /\ deserialize_block_header(api.data.bytes).ok
      /\ ~api.validation.is_valid )
    => LET b == deserialize_block_header(api.data.bytes).block
           v == api.validation
           channel == b.nChannel # tmpl.m_channel
           stale == is_stale_height(tmpl.m_current_height, b.nHeight)
           bits == b.nBits = 0
           merkle == \A k \in 1..Len(b.hashMerkleRoot) : b.hashMerkleRoot[k] = 0
       IN  /\ (channel /\ ~stale /\ ~bits /\ ~merkle) => v.error_message = "channel"
           /\ (~channel /\ stale /\ ~bits /\ ~merkle) => v.error_message = "stale"
           /\ (~channel /\ ~stale /\ bits /\ ~merkle) => v.error_message = "bits"
           /\ (~channel /\ ~stale /\ ~bits /\ merkle) => v.error_message = "merkle"

(***************************************************************************)
(* C31: a MINER_AUTH_RESULT authenticates the session and is answered with *)
(* SET_CHANNEL exactly when its status byte is 1; with any other status    *)
(* byte the session is unauthenticated afterwards and nothing is sent.     *)
(***************************************************************************)
C31_AuthenticatedOnlyByStatusOne ==
    [][ ( /\ rd' # NoRead
          /\ wm'.m_connection
          /\ Len(rd'.dispatched) = 1
          /\ rd'.dispatched[1].m_header = MINER_AUTH_RESULT
          /\ rd'.dispatched[1].m_length >= 1 )
        => LET status == PayloadOf(rd'.dispatched[1])[1]
           IN  IF status = 1
               THEN /\ solo'.m_authenticated
                    /\ Len(wire') = Len(wire) + 1
                    /\ wire'[Len(wire')].payload.bytes[1] = SET_CHANNEL
               ELSE /\ ~solo'.m_authenticated
                    /\ wire' = wire
      ]_vars

\* the status bytes 0 and 1 are handled as the node means them
C31_StatusZeroAndOne ==
    [][ ( /\ rd' # NoRead
          /\ wm'.m_connection
          /\ Len(rd'.dispatched) = 1
          /\ rd'.dispatched[1].m_header = MINER_AUTH_RESULT
          /\ rd'.dispatched[1].m_length >= 1 )
        => LET status == PayloadOf(rd'.dispatched[1])[1]
           IN  /\ status = 1 =>
                     /\ solo'.m_authenticated
                     /\ Len(wire') = Len(wire) + 1
                     /\ wire'[Len(wire')].payload.bytes[1] = SET_CHANNEL
               /\ status = 0 => (~solo'.m_authenticated /\ wire' = wire)
      ]_vars

(***************************************************************************)
(* C32: a CHANNEL_ACK whose first byte differs from the requested channel  *)
(* is answered with one GET_BLOCK without a disconnect, and the channel    *)
(* the node acknowledged is the one templates are checked against from     *)
(* then on.                                                                *)
(***************************************************************************)
C32_MismatchedAckAccepted ==
    [][ ( /\ rd' # NoRead
          /\ wm.m_connection
          /\ rd'.aligned
          /\ Len(rd'.completed) = 1
          /\ rd'.completed[1].m_header = CHANNEL_ACK
          /\ rd'.completed[1].m_length >= 1
          /\ PayloadOf(rd'.completed[1])[1] # solo.m_channel )
        => /\ wm'.m_connection
           /\ Len(wire') = Len(wire) + 1
           /\ wire'[Len(wire')].payload = get_work
           /\ tmpl'.m_channel = PayloadOf(rd'.completed[1])[1]
      ]_vars

\* Solo::process_messages itself, handed a CHANNEL_ACK for another channel,
\* requests work and keeps the channel that was requested
C32_HandlerKeepsRequestedChannel ==
    \A c \in Channels :
        LET W == process_messages(World, Packet_payload(CHANNEL_ACK, <<c>>))
        IN  /\ W.tmpl.m_channel = tmpl.m_channel
            /\ W.solo.m_channel = solo.m_channel
            /\ wm.m_connection => Len(W.wire) = Len(wire) + 1

(***************************************************************************)
(* C33: the block-header decoder ignores trailing bytes: a payload that    *)
(* decodes, with any bytes appended, decodes to the same version, merkle   *)
(* root, channel, height, bits and nonce.                                  *)
(***************************************************************************)
C33_TrailingBytesIgnored ==
    ( /\ api.op = "read_template"
      /\ ~api.data.null
      /\ deserialize_block_header(api.data.bytes).ok )
    => \A t \in Trailers :
          LET exact == deserialize_block_header(api.data.bytes)
              longer == deserialize_block_header(api.data.bytes \o t)
          IN  longer.ok /\ longer.block = exact.block

\* appended bytes leave the version alone and are never a reason to reject
C33_TrailingBytesKeepVersion ==
    ( /\ api.op = "read_template"
      /\ ~api.data.null
      /\ deserialize_block_header(api.data.bytes).ok )
    => \A t \in Trailers :
          LET exact == deserialize_block_header(api.data.bytes)
              longer == deserialize_block_header(api.data.bytes \o t)
          IN  longer.ok /\ longer.block.nVersion = exact.block.nVersion

(***************************************************************************)
(* C34: while a validated template that the session has dispatched to the  *)
(* workers is neither superseded nor stale, the template interface holds   *)
(* it in state ACTIVE and has counted it as fed.                           *)
(***************************************************************************)
C34_DispatchedTemplateIsActive ==
    ( /\ worker.set_block_calls > 0
      /\ tmpl.m_current_template.state \notin {"EMPTY", "STALE", "SUBMITTED"} )
    => /\ tmpl.m_current_template.state = "ACTIVE"
       /\ tmpl.stats.templates_validated > 0 => tmpl.stats.templates_fed > 0

\* with a feed handler registered, a template that read_template accepts is
\* ACTIVE and counted as fed
C34_FedWhenHandlerRegistered ==
    ( /\ api.op = "read_template"
      /\ api.result
      /\ tmpl.m_feed_handler )
    => /\ tmpl.m_current_template.state = "ACTIVE"
       /\ tmpl.stats.templates_fed > 0

\* the counter that get_stats reports for a kind of signature
KindCounter(F, type) ==
    IF type = "AUTHENTICATION" THEN F.m_auth_signatures
    ELSE IF type = "BLOCK" THEN F.m_block_signatures
    ELSE F.m_payload_signatures

(***************************************************************************)
(* C35: a successful sign_payload(bytes, kind) adds exactly one to the     *)
(* total-signatures counter and exactly one to the counter of its kind (a  *)
(* submission signed with kind BLOCK counts as a block signature), and a   *)
(* failed signing operation changes no signature counter.                  *)
(***************************************************************************)
C35_SignatureCountedByKind ==
    [][ falcon'.calls = falcon.calls + 1 =>
          IF falcon'.last.success
          THEN falcon'.last.op = "sign_payload" =>
                 /\ falcon'.m_total_signatures = falcon.m_total_signatures + 1
                 /\ \A type \in SignatureTypes :
                       KindCounter(falcon', type) = KindCounter(falcon, type)
                           + (IF type = falcon'.last.type THEN 1 ELSE 0)
          ELSE /\ falcon'.m_total_signatures = falcon.m_total_signatures
               /\ \A type \in SignatureTypes :
                     KindCounter(falcon', type) = KindCounter(falcon, type)
      ]_vars

\* every successful signing operation adds one to the total and one to a
\* single per-kind counter, and a failed one adds nothing
C35_OneTotalOnePerKind ==
    [][ falcon'.calls = falcon.calls + 1 =>
          LET added(type) == KindCounter(falcon', type) - KindCounter(falcon, type)
              n == IF falcon'.last.success THEN 1 ELSE 0
          IN  /\ falcon'.m_total_signatures = falcon.m_total_signatures + n
              /\ added("AUTHENTICATION") + added("BLOCK") + added("PAYLOAD") = n
              /\ \A type \in SignatureTypes : added(type) \in {0, 1}
      ]_vars

(***************************************************************************)
(* C36: between two resets the session's current height never decreases,   *)
(* whatever BLOCK_HEIGHT and BLOCK_DATA packets the node sends: a template *)
(* below a height announced by BLOCK_HEIGHT does not lower it.             *)
(***************************************************************************)
C36_SessionHeightNeverDecreases ==
    [][ (wm.m_connection /\ wm'.m_connection)
          => solo'.m_current_height >= solo.m_current_height ]_vars

\* the height that validate_template compares with never decreases
C36_TemplateHeightNeverDecreases ==
    [][ tmpl'.m_current_height >= tmpl.m_current_height ]_vars

(***************************************************************************)
(* C37: after the reset that a disconnect causes, the height that template *)
(* validation compares with is 0 again and equals the session's current    *)
(* height, so that no template of the next session is stale because of a   *)
(* height of the previous one.                                             *)
(***************************************************************************)
C37_HeightBaselineResetOnDisconnect ==
    [][ (wm.m_connection /\ ~wm'.m_connection)
          => /\ tmpl'.m_current_height = 0
             /\ tmpl'.m_current_height = solo'.m_current_height
             /\ \A height \in 1..3 :
                   ~is_stale_height(tmpl'.m_current_height, height) ]_vars

(***************************************************************************)
(* C38: Connection::transmit is never called with a null or empty payload  *)
(* and the outbound queue never holds one: when login, get_work or         *)
(* submit_block produce no packet, nothing is enqueued.                    *)
(***************************************************************************)
C38_NoNullPayloadQueued ==
    \A i \in 1..Len(wire) :
        /\ ~wire[i].payload.null
        /\ wire[i].payload.bytes # <<>>

\* the replies of the state machine to packets of the node are never null
\* or empty
C38_RepliesAreNeverNull ==
    [][ rd' # NoRead =>
          \A i \in (Len(wire) + 1)..Len(wire') :
              /\ ~wire'[i].payload.null
              /\ wire'[i].payload.bytes # <<>> ]_vars

(***************************************************************************)
(* C39: every (merkle_root, nonce) pair that a solution callback passes to *)
(* submit_block is a pair for which the worker's difficulty check          *)
(* succeeded: the callback submits the block and nonce that were found,    *)
(* not the worker's block as it is when the callback runs.                 *)
(***************************************************************************)
C39_SubmittedPairWasFound ==
    [][ (worker'.posted < worker.posted /\ wm.m_connection) =>
          /\ worker.m_block \in worker.solutions
          /\ << worker.m_block.hashMerkleRoot, worker.m_block.nNonce >>
                \in { << b.hashMerkleRoot, b.nNonce >> : b \in worker.solutions }
      ]_vars

\* a callback that runs before the next set_block submits what was found
C39_SubmittedPairWasFoundIfNoSetBlock ==
    [][ ( /\ worker'.posted < worker.posted
          /\ wm.m_connection
          /\ worker.posted_for = worker.set_block_calls )
        => worker.m_block \in worker.solutions
      ]_vars

(***************************************************************************)
(* C40: the loop of process_data terminates for every receive buffer:      *)
(* each iteration either sets the remaining size to 0, which ends the      *)
(* loop, or strictly decreases it, and the start index handed to the       *)
(* parser never exceeds the size of the buffer.                            *)
(***************************************************************************)
C40_ProcessDataIterationDecreases ==
    [][ /\ from_index' >= 0
        /\ from_index' <= Len(enc.bytes)
        /\ dec'.remaining_size >= 0
        /\ \/ dec'.remaining_size = 0
           \/ dec'.remaining_size < dec.remaining_size
        /\ (phase' = "done") <=> (dec'.remaining_size = 0)
      ]_vars

\* the loop has ended after a CHANNEL_ACK with a payload, which fails
\* is_valid, and at least one more iteration behind it
C40_Witness ==
    /\ phase = "done"
    /\ Len(enc.bytes) >= 7
    /\ enc.bytes[1] = CHANNEL_ACK
    /\ ~is_valid(extract_packet_from_buffer(enc, 0).packet)
    /\ from_index >= 6

\* with the loop scheduled, process_data returns
C40_ProcessDataTerminates == <>(phase = "done")

====
